---- MODULE Spec2Model ----
(***************************************************************************)
(* Scribbler: layered drawing surface with multi-sheet persistence.        *)
(*                                                                         *)
(* Two variants of the program are modelled side by side.                  *)
(*   - the layer-model variant (src/unnamed/part_000): StorageManager,     *)
(*     LayerManager, InteractionManager, Renderer, TabManager;             *)
(*   - the canvas-raster variant (src/popup.js): StorageManager,           *)
(*     KeyboardShortcutManager, ScribbleCanvas, TabManager.                *)
(* Each variant has its own variables; a specification of one variant      *)
(* leaves the variables of the other at their initial value.               *)
(***************************************************************************)
EXTENDS Integers, Sequences, FiniteSets, TLC

(***************************************************************************)
(* Bounds of the model.                                                    *)
(***************************************************************************)
\* number of UI events / API calls of one behaviour of Spec
MaxSteps == 7
\* number of LayerManager calls of one behaviour of SpecHistory
HistorySteps == 6
\* layers a behaviour of SpecHistory holds at most
MaxLayers == 2
\* number of calls of one behaviour of SpecLimit
LimitSteps == 60
\* SpecLimit undoes and loads once the undo stack holds this many snapshots
NearLimit == 42
\* number of sheet ids Date.now() hands out in one behaviour
MaxTabIds == 2

(***************************************************************************)
(* Program constants.                                                      *)
(***************************************************************************)
\* saveStateToHistory: "if (this.undoStack.length > 50)"
HistoryLimit == 50
\* addImageLayer: x: 50, y: 50, width: 200
DefaultX == 50
DefaultY == 50
DefaultWidth == 200
\* handleMouseMove: Math.max(20, ...)
MinSize == 20
\* handleMouseDown: handle.x - 6 .. handle.x + 6, closeBtn.x - 12 .. closeBtn.x + 12
HandleRadius == 6
CloseRadius == 12

(***************************************************************************)
(* JavaScript values.  A number field of a layer can hold a number, NaN,   *)
(* null (what JSON makes of NaN), the string 'auto', or be absent          *)
(* (undefined).                                                            *)
(***************************************************************************)
Num(n) == [k |-> "num", v |-> n]
NaN == [k |-> "nan", v |-> 0]
Null == [k |-> "null", v |-> 0]
Undefined == [k |-> "undefined", v |-> 0]
Auto == [k |-> "auto", v |-> 0]

\* ToNumber of the language: null is 0, undefined and 'auto' are NaN
ToNumber(a) ==
    IF a.k = "num" THEN a
    ELSE IF a.k = "null" THEN Num(0)
    ELSE NaN

IsNaN(a) == ToNumber(a).k = "nan"

\* a + b on numbers (undefined + n is NaN)
Plus(a, b) ==
    IF IsNaN(a) \/ IsNaN(b) THEN NaN ELSE Num(ToNumber(a).v + ToNumber(b).v)

\* a - b
Minus(a, b) ==
    IF IsNaN(a) \/ IsNaN(b) THEN NaN ELSE Num(ToNumber(a).v - ToNumber(b).v)

\* Math.max(a, b): NaN when either argument is NaN
MathMax(a, b) ==
    IF IsNaN(a) \/ IsNaN(b) THEN NaN
    ELSE IF ToNumber(a).v >= ToNumber(b).v THEN ToNumber(a) ELSE ToNumber(b)

\* a >= b and a <= b: false when either side is NaN
GreaterEq(a, b) == ~IsNaN(a) /\ ~IsNaN(b) /\ ToNumber(a).v >= ToNumber(b).v
LessEq(a, b) == ~IsNaN(a) /\ ~IsNaN(b) /\ ToNumber(a).v <= ToNumber(b).v

\* JSON.parse(JSON.stringify(v)) of one field: NaN is written as null
JsonValue(a) == IF a.k = "nan" THEN Null ELSE a

(***************************************************************************)
(* Images.  An encoded image (a data URL) is an opaque name; its intrinsic *)
(* size is known to a fresh Image object only when the image is in the     *)
(* document's list of available images, otherwise width and height are 0.  *)
(***************************************************************************)
\* the files the user uploads
Uploads == {"imgA", "imgB"}
\* the rasters toDataURL() yields for a finished stroke
Strokes == {"s1", "s2"}

IntrinsicWidth(data) == 100
IntrinsicHeight(data) == IF data = "imgB" THEN 200 ELSE 100

\* pointer positions, relative to the overlay canvas
Points == { <<50, 50>>, <<250, 50>>, <<250, 250>>, <<50, 250>>,
            <<100, 100>>, <<30, 30>>, <<280, 250>> }

(***************************************************************************)
(* Layers.                                                                 *)
(***************************************************************************)
DrawingLayer(id, data) ==
    [id |-> id, type |-> "drawing", data |-> data,
     x |-> Undefined, y |-> Undefined, width |-> Undefined, height |-> Undefined]

ImageLayer(id, data) ==
    [id |-> id, type |-> "image", data |-> data,
     x |-> Num(DefaultX), y |-> Num(DefaultY), width |-> Num(DefaultWidth),
     height |-> Auto]

\* JSON.parse(JSON.stringify(layers)): a deep copy in which NaN became null
JsonLayer(l) ==
    [l EXCEPT !.x = JsonValue(l.x), !.y = JsonValue(l.y),
              !.width = JsonValue(l.width), !.height = JsonValue(l.height)]

JsonCopy(ls) == [i \in 1..Len(ls) |-> JsonLayer(ls[i])]

\* values of the persistent store
Absent == [k |-> "absent", v |-> <<>>]
Stored(v) == [k |-> "json", v |-> v]
\* a value JSON.parse rejects
Unparsable == [k |-> "unparsable", v |-> <<>>]
\* a value that is the JSON of a string, the string being no JSON itself
BrokenText == [k |-> "text", v |-> <<>>]

TabIdSet == 1..MaxTabIds

VARIABLES
    \* ---- layer-model variant: LayerManager
    layers,         \* this.layers
    activeLayer,    \* this.activeLayer: index into layers of the object, 0 = null
    undoStack,      \* this.undoStack
    redoStack,      \* this.redoStack
    nextLayerId,    \* Date.now() of the next layer id
    \* ---- InteractionManager, ToolManager, Renderer
    activeTool,     \* ToolManager.activeTool
    isDragging,
    isResizing,
    dragStart,
    resizeHandle,
    isDrawing,      \* Renderer.isDrawing
    avail,          \* encoded images in the list of available images
    reading,        \* uploads whose FileReader has not fired onload yet
    \* ---- TabManager
    tabList,        \* TabManager.tabList
    activeTabId,    \* TabManager.activeTabId
    tabDom,         \* ids of the tab elements in #tab-container
    nextTabId,      \* Date.now() of the next sheet id
    \* ---- localStorage
    lsLayers,       \* layersState_<id>
    lsTabs,         \* scribbler_tabs
    lsActive,       \* scribbler_activeTabId
    setThrows,      \* whether localStorage.setItem throws (quota reached)
    job,            \* the closure of the last downloadCanvas() / printCanvas() call
    heap,           \* LayerManager's arrays and layer objects, held by reference
    render,         \* Renderer: what is painted on the main canvas, and the Images loading
    \* ---- canvas-raster variant (popup.js): TabManager
    pTabList,       \* TabManager.tabList
    pActiveTabId,   \* TabManager.activeTabId
    pTabDom,        \* ids of the tab elements in #tab-container
    pNextTabId,     \* Date.now() of the next sheet id
    \* ---- ScribbleCanvas, KeyboardShortcutManager, ToolManager
    canvas,         \* what #scribbleCanvas shows: the set of strokes on it
    drawing,        \* ScribbleCanvas.drawing
    stroke,         \* the stroke being drawn (0 when none)
    nextStroke,     \* the next stroke
    kUndoStack,     \* KeyboardShortcutManager.undoStack
    kRedoStack,     \* KeyboardShortcutManager.redoStack
    loads,          \* Image objects whose onload has not run yet
    pActiveTool,    \* ToolManager.activeTool
    restored,       \* observation: the last raster an onload painted
    \* ---- localStorage of popup.js
    pCanvasState,   \* canvasState_<id>
    pTabs,          \* scribbler_tabs
    pActive,        \* scribbler_activeTabId
    pImagesState,   \* imagesState_<id>, the key saveImagesState and loadImages use
    pImageState,    \* imageState_<id>, the key removeTab removes
    \* ---- ImageManager of popup.js
    images,         \* this.images: the ids of the containers in #image-layer
    currentImage,   \* this.currentImage: the id of the selected image, 0 = null
    imageDrawings,  \* this.imageDrawings: per image its drawing data
    imageCanvases,  \* this.imageCanvases: per image its overlay canvas
    imIsDragging,   \* this.isDragging || this.isResizing
    imGesture,      \* isDragging, isResizing, activeHandle, startX, initialWidth, initialLeft
    imStyle,        \* per image: the width of its <img> and the left of its container
    uploading,      \* FileReaders of uploads that have not loaded yet
    imgPending,     \* images whose <img> has not loaded yet
    drawingLoads,   \* drawings loading into an overlay canvas
    nextImageId,    \* the id of the next uploaded image
    strokeTarget,   \* observation: currentImage when the stroke began
    \* ---- the service worker (background.js)
    messages,       \* per runtime message: the state of its promise chain
    \* ---- observation (not program state)
    budget,         \* events left in this behaviour
    lastOp,         \* the handler that ran last
    prevOp,         \* the handler that ran before it (recorded when deep)
    deep,           \* whether this behaviour records prevOp
    pre,            \* LayerManager's fields before the last handler
    left            \* per sheet: LayerManager's fields when the sheet was last left

lmVars == <<layers, activeLayer, undoStack, redoStack, nextLayerId>>
imVars == <<activeTool, isDragging, isResizing, dragStart, resizeHandle, isDrawing>>
tabVars == <<tabList, activeTabId, tabDom, nextTabId>>
lsVars == <<lsLayers, lsTabs, lsActive>>
obsVars == <<budget, lastOp, prevOp, deep, pre, left, render>>
layerVars == <<lmVars, imVars, avail, reading, tabVars, lsVars, job, heap>>
pTabVars == <<pTabList, pActiveTabId, pTabDom, pNextTabId>>
pCanvasVars == <<canvas, drawing, stroke, nextStroke, kUndoStack, kRedoStack, loads,
                 pActiveTool, restored>>
pLsVars == <<pCanvasState, pTabs, pActive, pImagesState, pImageState>>
pImageVars == <<images, currentImage, imageDrawings, imageCanvases, imIsDragging, imGesture,
                imStyle, uploading,
                imgPending, drawingLoads, nextImageId, strokeTarget>>
rasterVars == <<pTabVars, pCanvasVars, pLsVars, pImageVars>>
vars == <<layerVars, setThrows, rasterVars, messages, obsVars>>


(***************************************************************************)
(* StorageManager (part_000): values are written with JSON.stringify and   *)
(* read back with JSON.parse; LayerManager and TabManager stringify once   *)
(* more before the call and parse once more after it.                      *)
(***************************************************************************)
\* saveToLocalStorage(key, JSON.stringify(value)), read back by getFromLocalStorage
SaveToLocalStorage(value) == Stored(value)

\* the entry of a key after saveToLocalStorage(key, value): setItem writes it,
\* or throws and leaves it as it was
Saved(entry, value) == IF setThrows THEN entry ELSE SaveToLocalStorage(value)

\* saveToLocalStorage with no catch block: it returns only when setItem does
SaveRethrows == ~setThrows

\* whether saveToLocalStorage returns to its caller: its catch block logs
\* what setItem throws and falls through
SaveReturns == TRUE

\* getFromLocalStorage(key): the parsed value; null when the key is absent or
\* JSON.parse throws
GetFromLocalStorage(entry) == IF entry = Unparsable THEN Absent ELSE entry

(***************************************************************************)
(* LayerManager                                                            *)
(***************************************************************************)
Last(s) == s[Len(s)]
Front(s) == SubSeq(s, 1, Len(s) - 1)

\* JSON.stringify(this.layers) !== JSON.stringify(top of undoStack)
\* (the top of an empty stack is undefined, which no string equals)
DiffersFromTop(ls, us) ==
    \/ us = <<>>
    \/ JsonCopy(ls) # JsonCopy(Last(us))

\* saveStateToHistory() as it would be without "this.redoStack = []"
SaveStateToHistoryKeepsRedo(ls, us, rs) ==
    IF DiffersFromTop(ls, us)
    THEN LET pushed == Append(us, JsonCopy(ls)) IN
         [undoStack |-> IF Len(pushed) > HistoryLimit THEN Tail(pushed) ELSE pushed,
          redoStack |-> rs]
    ELSE [undoStack |-> us, redoStack |-> rs]

\* saveStateToHistory() as it would be without the comparison with the top
SaveStateToHistoryAlways(ls, us, rs) ==
    LET pushed == Append(us, JsonCopy(ls)) IN
    [undoStack |-> IF Len(pushed) > HistoryLimit THEN Tail(pushed) ELSE pushed,
     redoStack |-> <<>>]

\* saveStateToHistory() as it would be with "pop()" for "shift()"
SaveStateToHistoryDropsNewest(ls, us, rs) ==
    IF DiffersFromTop(ls, us)
    THEN LET pushed == Append(us, JsonCopy(ls)) IN
         [undoStack |-> IF Len(pushed) > HistoryLimit THEN Front(pushed) ELSE pushed,
          redoStack |-> <<>>]
    ELSE [undoStack |-> us, redoStack |-> rs]

\* saveStateToHistory(): the two stacks after the call
SaveStateToHistory(ls, us, rs) ==
    IF DiffersFromTop(ls, us)
    THEN LET pushed == Append(us, JsonCopy(ls)) IN
         [undoStack |-> IF Len(pushed) > HistoryLimit THEN Tail(pushed) ELSE pushed,
          redoStack |-> <<>>]
    ELSE [undoStack |-> us, redoStack |-> rs]

\* saveState(): layersState_<activeTabId> := JSON of the layers
SaveState(ls) ==
    lsLayers' = [lsLayers EXCEPT ![activeTabId] = Saved(@, JsonCopy(ls))]

\* addLayer(layer) as it would be without its saveStateToHistory() call
AddLayerWithoutHistory(layer) ==
    /\ layers' = Append(layers, layer)
    /\ UNCHANGED <<undoStack, redoStack>>
    /\ SaveState(layers')

\* addLayer(layer)
AddLayer(layer) ==
    LET h == SaveStateToHistory(layers, undoStack, redoStack) IN
    /\ layers' = Append(layers, layer)
    /\ undoStack' = h.undoStack
    /\ redoStack' = h.redoStack
    /\ SaveState(layers')

\* addDrawingLayer(data)
AddDrawingLayer(data) ==
    /\ AddLayer(DrawingLayer(nextLayerId, data))
    /\ nextLayerId' = nextLayerId + 1
    /\ activeLayer' = IF SaveReturns THEN 0 ELSE activeLayer

\* addImageLayer(data)
AddImageLayer(data) ==
    /\ AddLayer(ImageLayer(nextLayerId, data))
    /\ nextLayerId' = nextLayerId + 1
    /\ activeLayer' = IF SaveReturns THEN Len(layers') ELSE activeLayer

\* the layers whose id is not layerId, in order
WithoutLayer(ls, layerId) == SelectSeq(ls, LAMBDA l : l.id # layerId)

\* removeLayer(layerId)
RemoveLayer(layerId) ==
    LET h == SaveStateToHistory(layers, undoStack, redoStack) IN
    /\ layers' = WithoutLayer(layers, layerId)
    /\ undoStack' = h.undoStack
    /\ redoStack' = h.redoStack
    /\ activeLayer' = 0
    /\ SaveState(layers')
    /\ UNCHANGED nextLayerId

\* clearLayers()
ClearLayers ==
    LET h == SaveStateToHistory(layers, undoStack, redoStack) IN
    /\ layers' = <<>>
    /\ undoStack' = h.undoStack
    /\ redoStack' = h.redoStack
    /\ activeLayer' = 0
    /\ SaveState(layers')
    /\ UNCHANGED nextLayerId

\* undo(): the fields after the call
UndoResult(ls, us, rs) ==
    [layers |-> Last(us), undoStack |-> Front(us), redoStack |-> Append(rs, JsonCopy(ls))]

\* undo()
Undo ==
    IF undoStack # <<>>
    THEN LET r == UndoResult(layers, undoStack, redoStack) IN
         /\ layers' = r.layers
         /\ undoStack' = r.undoStack
         /\ redoStack' = r.redoStack
         /\ activeLayer' = 0
         /\ SaveState(layers')
         /\ UNCHANGED nextLayerId
    ELSE UNCHANGED <<lmVars, lsLayers>>

\* redo(): the fields after the call
RedoResult(ls, us, rs) ==
    [layers |-> Last(rs), undoStack |-> Append(us, JsonCopy(ls)), redoStack |-> Front(rs)]

\* redo()
Redo ==
    IF redoStack # <<>>
    THEN LET r == RedoResult(layers, undoStack, redoStack) IN
         /\ layers' = r.layers
         /\ undoStack' = r.undoStack
         /\ redoStack' = r.redoStack
         /\ activeLayer' = 0
         /\ SaveState(layers')
         /\ UNCHANGED nextLayerId
    ELSE UNCHANGED <<lmVars, lsLayers>>

\* loadState() with a catch block that leaves this.layers as it is
LoadedLayersKeptOnError(savedState) ==
    IF GetFromLocalStorage(savedState).k = "json"
    THEN GetFromLocalStorage(savedState).v
    ELSE IF GetFromLocalStorage(savedState) = BrokenText THEN layers ELSE <<>>

\* loadState(): savedState is the entry of layersState_<activeTabId>; the
\* layers are [] when the entry is null or JSON.parse(savedState) throws
LoadedLayers(savedState) ==
    IF GetFromLocalStorage(savedState).k = "json"
    THEN GetFromLocalStorage(savedState).v
    ELSE <<>>

\* loadState() as it would be if it left the two stacks alone
LoadStateKeepsHistory(savedState) ==
    /\ layers' = LoadedLayers(savedState)
    /\ activeLayer' = 0
    /\ UNCHANGED <<undoStack, redoStack, nextLayerId>>

LoadState(savedState) ==
    /\ layers' = LoadedLayers(savedState)
    /\ activeLayer' = 0
    /\ undoStack' = <<JsonCopy(layers')>>
    /\ redoStack' = <<>>
    /\ UNCHANGED nextLayerId

(***************************************************************************)
(* Renderer: geometry of an image layer                                    *)
(***************************************************************************)
\* getImageHeight(layer): layer.width / (img.width / img.height) of a fresh
\* Image; 0 / 0 when the image is not available yet
GetImageHeight(layer) ==
    IF layer.data \in avail /\ ~IsNaN(layer.width)
    THEN Num((ToNumber(layer.width).v * IntrinsicHeight(layer.data))
                 \div IntrinsicWidth(layer.data))
    ELSE NaN

\* getImageHandles(layer), in the order "for (const key in handles)" visits them
HandleKeys == <<"br", "bl", "tr", "tl">>

GetImageHandles(layer) ==
    [br |-> [x |-> Plus(layer.x, layer.width), y |-> Plus(layer.y, GetImageHeight(layer))],
     bl |-> [x |-> layer.x, y |-> Plus(layer.y, GetImageHeight(layer))],
     tr |-> [x |-> Plus(layer.x, layer.width), y |-> layer.y],
     tl |-> [x |-> layer.x, y |-> layer.y]]

\* getCloseButton(layer)
GetCloseButton(layer) == [x |-> Plus(layer.x, layer.width), y |-> layer.y]

\* mouseX >= c.x - r && mouseX <= c.x + r && mouseY >= c.y - r && mouseY <= c.y + r
Within(p, c, r) ==
    /\ GreaterEq(Num(p[1]), Minus(c.x, Num(r)))
    /\ LessEq(Num(p[1]), Plus(c.x, Num(r)))
    /\ GreaterEq(Num(p[2]), Minus(c.y, Num(r)))
    /\ LessEq(Num(p[2]), Plus(c.y, Num(r)))

\* the first handle of the layer that holds the point, "none" when none does
HandleAt(layer, p) ==
    LET hit == {i \in 1..Len(HandleKeys) :
                    Within(p, GetImageHandles(layer)[HandleKeys[i]], HandleRadius)}
    IN IF hit = {} THEN "none"
       ELSE HandleKeys[CHOOSE i \in hit : \A j \in hit : i <= j]

\* the bounds test of getLayerAt
Contains(layer, p) ==
    /\ GreaterEq(Num(p[1]), layer.x)
    /\ LessEq(Num(p[1]), Plus(layer.x, layer.width))
    /\ GreaterEq(Num(p[2]), layer.y)
    /\ LessEq(Num(p[2]), Plus(layer.y, GetImageHeight(layer)))

RECURSIVE HitFrom(_, _, _)
\* the loop of getLayerAt from index i down to the bottom layer: the first
\* image layer whose bounds hold the point, 0 when it runs out
HitFrom(ls, p, i) ==
    IF i = 0 THEN 0
    ELSE IF ls[i].type = "image" /\ Contains(ls[i], p) THEN i
    ELSE HitFrom(ls, p, i - 1)

\* a hit test that walks the layers from the bottom
HitIndexBottomUp(ls, p) ==
    LET hit == {i \in 1..Len(ls) : ls[i].type = "image" /\ Contains(ls[i], p)}
    IN IF hit = {} THEN 0 ELSE CHOOSE i \in hit : \A j \in hit : i <= j

\* getLayerAt(x, y): index of the layer returned, 0 for null
HitIndex(ls, p) == HitFrom(ls, p, Len(ls))

\* the layers with the one at index i moved to the end
MoveToEnd(ls, i) ==
    Append(SubSeq(ls, 1, i - 1) \o SubSeq(ls, i + 1, Len(ls)), ls[i])

\* a getLayerAt(x, y) that selects the layer it finds where it is
GetLayerAtInPlace(p) ==
    LET i == HitIndex(layers, p)
        h == SaveStateToHistory(layers, undoStack, redoStack)
    IN IF i = 0
       THEN /\ activeLayer' = 0
            /\ UNCHANGED <<layers, undoStack, redoStack, nextLayerId, lsLayers>>
       ELSE IF activeLayer # i
       THEN /\ undoStack' = h.undoStack
            /\ redoStack' = h.redoStack
            /\ activeLayer' = i
            /\ UNCHANGED <<layers, nextLayerId, lsLayers>>
       ELSE UNCHANGED <<lmVars, lsLayers>>

\* getLayerAt(x, y): what it does to LayerManager and the store
GetLayerAt(p) ==
    LET i == HitIndex(layers, p)
        h == SaveStateToHistory(layers, undoStack, redoStack)
    IN IF i = 0
       THEN /\ activeLayer' = 0
            /\ UNCHANGED <<layers, undoStack, redoStack, nextLayerId, lsLayers>>
       ELSE IF activeLayer # i
       THEN /\ undoStack' = h.undoStack
            /\ redoStack' = h.redoStack
            /\ UNCHANGED nextLayerId
            /\ IF Len(layers) > 1 /\ i # Len(layers)
               THEN /\ layers' = MoveToEnd(layers, i)
                    /\ activeLayer' = Len(layers)
                    /\ SaveState(layers')
               ELSE /\ activeLayer' = i
                    /\ UNCHANGED <<layers, lsLayers>>
       ELSE UNCHANGED <<lmVars, lsLayers>>

(***************************************************************************)
(* InteractionManager                                                      *)
(***************************************************************************)
\* this.dragStart = { x: 0, y: 0 }
NoDragStart ==
    [x |-> Num(0), y |-> Num(0), width |-> Undefined, height |-> Undefined,
     layerX |-> Undefined, layerY |-> Undefined]

\* dragStart of a resize: { x, y, width, height }
ResizeStart(p, layer) ==
    [x |-> Num(p[1]), y |-> Num(p[2]), width |-> layer.width,
     height |-> GetImageHeight(layer), layerX |-> Undefined, layerY |-> Undefined]

\* dragStart of a drag: { x, y, layerX, layerY }
DragStart(p, layer) ==
    [x |-> Num(p[1]), y |-> Num(p[2]), width |-> Undefined, height |-> Undefined,
     layerX |-> layer.x, layerY |-> layer.y]

\* the last part of handleMouseDown: hit test of the layer bodies, then drag
MouseDownBody(p) ==
    /\ GetLayerAt(p)
    /\ IF HitIndex(layers, p) # 0
       THEN /\ isDragging' = TRUE
            /\ dragStart' = DragStart(p, layers[HitIndex(layers, p)])
       ELSE UNCHANGED <<isDragging, dragStart>>
    /\ UNCHANGED <<isResizing, resizeHandle, isDrawing>>

\* handleMouseDown(e) as it would be with the loop over the handles before
\* the test of the close button
HandleMouseDownHandlesFirst(p) ==
    /\ UNCHANGED activeTool
    /\ IF activeTool = "pointer"
       THEN IF activeLayer # 0 /\ layers[activeLayer].type = "image"
            THEN IF HandleAt(layers[activeLayer], p) # "none"
                 THEN /\ isResizing' = TRUE
                      /\ resizeHandle' = HandleAt(layers[activeLayer], p)
                      /\ dragStart' = ResizeStart(p, layers[activeLayer])
                      /\ UNCHANGED <<isDragging, isDrawing, lmVars, lsLayers>>
                 ELSE IF Within(p, GetCloseButton(layers[activeLayer]), CloseRadius)
                 THEN /\ RemoveLayer(layers[activeLayer].id)
                      /\ UNCHANGED <<isDragging, isResizing, dragStart, resizeHandle,
                                     isDrawing>>
                 ELSE MouseDownBody(p)
            ELSE MouseDownBody(p)
       ELSE /\ isDrawing' = TRUE
            /\ UNCHANGED <<isDragging, isResizing, dragStart, resizeHandle,
                           lmVars, lsLayers>>

\* handleMouseDown(e), e at point p
HandleMouseDown(p) ==
    /\ UNCHANGED activeTool
    /\ IF activeTool = "pointer"
       THEN IF activeLayer # 0 /\ layers[activeLayer].type = "image"
            THEN IF Within(p, GetCloseButton(layers[activeLayer]), CloseRadius)
                 THEN /\ RemoveLayer(layers[activeLayer].id)
                      /\ UNCHANGED <<isDragging, isResizing, dragStart, resizeHandle,
                                     isDrawing>>
                 ELSE IF HandleAt(layers[activeLayer], p) # "none"
                 THEN /\ isResizing' = TRUE
                      /\ resizeHandle' = HandleAt(layers[activeLayer], p)
                      /\ dragStart' = ResizeStart(p, layers[activeLayer])
                      /\ UNCHANGED <<isDragging, isDrawing, lmVars, lsLayers>>
                 ELSE MouseDownBody(p)
            ELSE MouseDownBody(p)
       ELSE \* brush: Renderer.handleDrawingMouseDown
            /\ isDrawing' = TRUE
            /\ UNCHANGED <<isDragging, isResizing, dragStart, resizeHandle,
                           lmVars, lsLayers>>

\* the layer after one pointer-move of a drag
Dragged(layer, p) ==
    [layer EXCEPT
        !.x = Plus(dragStart.layerX, Minus(Num(p[1]), dragStart.x)),
        !.y = Plus(dragStart.layerY, Minus(Num(p[2]), dragStart.y))]

\* the handle branch of a resize pointer-move as it would be without
\* Math.max(20, ...)
ResizedByNoFloor(layer, handle, dx, dy) ==
    LET wGrow == Plus(dragStart.width, dx)
        wShrink == Minus(dragStart.width, dx)
        newHeight == Minus(dragStart.height, dy)
        shiftX == Plus(dragStart.layerX, Minus(dragStart.width, wShrink))
        shiftY == Plus(dragStart.layerY, Minus(dragStart.height, newHeight))
    IN CASE handle = "br" -> [layer EXCEPT !.width = wGrow]
         [] handle = "bl" -> [layer EXCEPT !.x = shiftX, !.width = wShrink]
         [] handle = "tr" -> [layer EXCEPT !.width = wGrow, !.y = shiftY]
         [] handle = "tl" -> [layer EXCEPT !.x = shiftX, !.y = shiftY]
         [] OTHER -> layer

\* the layer after the handle branch of a resize pointer-move
ResizedBy(layer, handle, dx, dy) ==
    LET wGrow == MathMax(Num(MinSize), Plus(dragStart.width, dx))
        wShrink == MathMax(Num(MinSize), Minus(dragStart.width, dx))
        newHeight == MathMax(Num(MinSize), Minus(dragStart.height, dy))
        shiftX == Plus(dragStart.layerX, Minus(dragStart.width, wShrink))
        shiftY == Plus(dragStart.layerY, Minus(dragStart.height, newHeight))
    IN CASE handle = "br" -> [layer EXCEPT !.width = wGrow]
         [] handle = "bl" -> [layer EXCEPT !.x = shiftX, !.width = wShrink]
         [] handle = "tr" -> [layer EXCEPT !.width = wGrow, !.y = shiftY]
         [] handle = "tl" -> [layer EXCEPT !.x = shiftX, !.y = shiftY]
         [] OTHER -> layer

\* a pointer-move of a resize that leaves the height alone
ResizedKeepsHeight(layer, p) ==
    ResizedBy(layer, resizeHandle,
              Minus(Num(p[1]), dragStart.x), Minus(Num(p[2]), dragStart.y))

\* the layer after one pointer-move of a resize: handle branch, then
\* height = width / aspectRatio
Resized(layer, p) ==
    LET r == ResizedBy(layer, resizeHandle,
                       Minus(Num(p[1]), dragStart.x), Minus(Num(p[2]), dragStart.y))
    IN [r EXCEPT !.height = GetImageHeight(r)]

\* handleMouseMove(e), e at point p
HandleMouseMove(p) ==
    /\ UNCHANGED <<imVars, activeLayer, undoStack, redoStack, nextLayerId, lsLayers>>
    /\ IF activeTool = "pointer" /\ activeLayer # 0
       THEN IF isDragging
            THEN layers' = [layers EXCEPT ![activeLayer] = Dragged(@, p)]
            ELSE IF isResizing
            THEN layers' = [layers EXCEPT ![activeLayer] = Resized(@, p)]
            ELSE UNCHANGED layers
       ELSE \* brush: handleDrawingMouseMove only records the sample
            UNCHANGED layers

\* handleMouseUp(); data is what toDataURL() gives for the stroke
HandleMouseUp(data) ==
    /\ UNCHANGED activeTool
    /\ IF isDragging \/ isResizing
       THEN LET h == SaveStateToHistory(layers, undoStack, redoStack) IN
            /\ isDragging' = FALSE
            /\ isResizing' = FALSE
            /\ dragStart' = NoDragStart
            /\ resizeHandle' = "none"
            /\ undoStack' = h.undoStack
            /\ redoStack' = h.redoStack
            /\ SaveState(layers)
            /\ UNCHANGED <<layers, activeLayer, nextLayerId, isDrawing>>
       ELSE IF activeTool = "brush" /\ isDrawing
       THEN \* Renderer.handleDrawingMouseUp
            /\ isDrawing' = FALSE
            /\ AddDrawingLayer(data)
            /\ UNCHANGED <<isDragging, isResizing, dragStart, resizeHandle>>
       ELSE UNCHANGED <<isDragging, isResizing, dragStart, resizeHandle, isDrawing,
                        lmVars, lsLayers>>

\* ToolManager.setTool(tool)
SetTool(tool) ==
    /\ activeTool' = tool
    /\ UNCHANGED <<isDragging, isResizing, dragStart, resizeHandle, isDrawing>>

(***************************************************************************)
(* TabManager (part_000)                                                   *)
(***************************************************************************)
\* A title is a text followed by the decimal digits of a number n (by
\* nothing when n is NaN).  The number is a double: Num(v), or 2^53 =
\* 9007199254740992, the least integer whose successor is not a double, so
\* that 2^53 + 1 evaluates to 2^53.
TwoTo53 == [k |-> "2^53", v |-> 0]

\* the title `Sheet ${n}`
SheetTitle(n) == [text |-> "Sheet ", n |-> n]

\* parseInt(tab.title.replace('Sheet ', '')) || 0: what is left must start
\* with the digits
TitleNumber(title) ==
    IF title.text \in {"Sheet ", ""} /\ title.n # NaN THEN title.n ELSE Num(0)

RECURSIVE HighestNumber(_)
\* this.tabList.reduce((max, tab) => Math.max(max, num), 0)
HighestNumber(tl) ==
    IF tl = <<>> THEN Num(0)
    ELSE LET rest == HighestNumber(Front(tl))
             num == TitleNumber(Last(tl).title)
         IN IF rest = TwoTo53 \/ num = TwoTo53 THEN TwoTo53
            ELSE IF num.v > rest.v THEN num ELSE rest

\* generateUniqueTabTitle(): `Sheet ${highestNumber + 1}`
GenerateUniqueTabTitle(tl) ==
    LET highestNumber == HighestNumber(tl) IN
    SheetTitle(IF highestNumber = TwoTo53 THEN TwoTo53 ELSE Num(highestNumber.v + 1))

TabIds(tl) == {tl[i].id : i \in 1..Len(tl)}

\* saveTabsToStorage(), with the registry and active id it finds
SaveTabsToStorage(tl, id) ==
    /\ lsTabs' = Saved(lsTabs, tl)
    /\ lsActive' = Saved(lsActive, id)

\* switchToTab(tabId): dom is the tab elements of the document and store the
\* layersState_ entries when it runs
SwitchToTab(tabId, tl, dom, store) ==
    IF tabId \in dom
    THEN /\ activeTabId' = tabId
         /\ LoadState(store[tabId])
         /\ SaveTabsToStorage(tl, tabId)
    ELSE UNCHANGED <<activeTabId, lmVars, lsTabs, lsActive>>

\* addTab()
AddTab ==
    LET newTab == [id |-> nextTabId, title |-> GenerateUniqueTabTitle(tabList)] IN
    /\ nextTabId' = nextTabId + 1
    /\ tabList' = Append(tabList, newTab)
    /\ tabDom' = TabIds(tabList')
    /\ SwitchToTab(newTab.id, tabList', tabDom', lsLayers)
    /\ UNCHANGED lsLayers

\* removeTab(tabId) as it would be without the test of tabList.length: with
\* one sheet, this.tabList[0].id throws once the sheet is filtered out
RemoveTabUnguarded(tabId) ==
    /\ tabList' = SelectSeq(tabList, LAMBDA t : t.id # tabId)
    /\ lsLayers' = [lsLayers EXCEPT ![tabId] = Absent]
    /\ UNCHANGED nextTabId
    /\ IF tabList' = <<>>
       THEN UNCHANGED <<activeTabId, tabDom, lmVars, lsTabs, lsActive>>
       ELSE IF activeTabId = tabId
       THEN /\ SwitchToTab(tabList'[1].id, tabList', tabDom, lsLayers')
            /\ UNCHANGED tabDom
       ELSE /\ SaveTabsToStorage(tabList', activeTabId)
            /\ tabDom' = TabIds(tabList')
            /\ UNCHANGED <<activeTabId, lmVars>>

\* removeTab(tabId)
RemoveTab(tabId) ==
    IF Len(tabList) = 1
    THEN UNCHANGED <<tabVars, lmVars, lsVars>>
    ELSE /\ tabList' = SelectSeq(tabList, LAMBDA t : t.id # tabId)
         /\ lsLayers' = [lsLayers EXCEPT ![tabId] = Absent]
         /\ UNCHANGED nextTabId
         /\ IF activeTabId = tabId
            THEN /\ SwitchToTab(tabList'[1].id, tabList', tabDom, lsLayers')
                 /\ UNCHANGED tabDom
            ELSE /\ SaveTabsToStorage(tabList', activeTabId)
                 /\ tabDom' = TabIds(tabList')
                 /\ UNCHANGED <<activeTabId, lmVars>>

(***************************************************************************)
(* LayerManager by reference.  Above, a layer sequence is a value; in the  *)
(* program this.layers, every snapshot on a stack and every layer are      *)
(* objects, and an assignment to a field of a layer or a push on an array  *)
(* changes the object for every holder of a reference to it.  Here objs    *)
(* maps a reference to the object it denotes: an array of references or a  *)
(* layer.  Positions are reduced to x and sizes to the width.              *)
(***************************************************************************)
\* objects one behaviour creates at most
MaxRefs == 26

\* layers one behaviour of SpecHeap holds at most
HeapMaxLayers == 2

FreeRef == [kind |-> "free"]
ArrayObject(elems) == [kind |-> "array", elems |-> elems]
LayerObject(id, type) ==
    [kind |-> "layer", id |-> id, type |-> type, x |-> DefaultX, width |-> DefaultWidth]

\* a new object holding value: the heap after it and the reference to it
HeapNew(h, value) ==
    [heap |-> [h EXCEPT !.objs[h.next] = value, !.next = @ + 1], ref |-> h.next]

RECURSIVE CopyElems(_, _)
\* new objects with the fields of the objects refs denote
CopyElems(h, refs) ==
    IF refs = <<>> THEN [heap |-> h, refs |-> <<>>]
    ELSE LET first == HeapNew(h, h.objs[Head(refs)])
             rest == CopyElems(first.heap, Tail(refs))
         IN [heap |-> rest.heap, refs |-> <<first.ref>> \o rest.refs]

\* "JSON.parse(JSON.stringify(this.layers))" as it would be if it were
\* "this.layers": the array itself
JsonParseStringifyShares(h, a) == [heap |-> h, ref |-> a]

\* JSON.parse(JSON.stringify(array a)): a new array of new objects
JsonParseStringify(h, a) ==
    LET c == CopyElems(h, h.objs[a].elems)
        arr == HeapNew(c.heap, ArrayObject(c.refs))
    IN [heap |-> arr.heap, ref |-> arr.ref]

\* JSON.stringify(array a), as far as strings are compared
Stringified(h, a) == [i \in DOMAIN h.objs[a].elems |-> h.objs[h.objs[a].elems[i]]]

\* LayerManager after the constructor and the loadState() of the start on
\* an empty store: layers = [], undoStack = [ copy of layers ]
NewHeap ==
    [objs |-> [r \in 1..MaxRefs |-> IF r \in {1, 2} THEN ArrayObject(<<>>) ELSE FreeRef],
     next |-> 3, layers |-> 1, undoStack |-> <<2>>, redoStack |-> <<>>, activeLayer |-> 0,
     isDragging |-> FALSE, isResizing |-> FALSE, layerX |-> 0, width |-> 0, nextId |-> 1]

\* saveStateToHistory()
HeapSaveStateToHistory(h) ==
    IF \/ h.undoStack = <<>>
       \/ Stringified(h, h.layers) # Stringified(h, Last(h.undoStack))
    THEN LET c == JsonParseStringify(h, h.layers)
             pushed == Append(h.undoStack, c.ref)
         IN [c.heap EXCEPT !.undoStack = IF Len(pushed) > HistoryLimit THEN Tail(pushed)
                                         ELSE pushed,
                           !.redoStack = <<>>]
    ELSE h

\* addLayer(layer): the layer is a new object, pushed on this.layers
HeapAddLayer(h, type) ==
    LET saved == HeapSaveStateToHistory(h)
        n == HeapNew(saved, LayerObject(h.nextId, type))
    IN [heap |-> [n.heap EXCEPT !.objs[h.layers].elems = Append(@, n.ref),
                                !.nextId = @ + 1],
        ref |-> n.ref]

\* addDrawingLayer(data)
HeapAddDrawingLayer(h) == [HeapAddLayer(h, "drawing").heap EXCEPT !.activeLayer = 0]

\* addImageLayer(data)
HeapAddImageLayer(h) ==
    LET added == HeapAddLayer(h, "image") IN [added.heap EXCEPT !.activeLayer = added.ref]

\* removeLayer(layerId): filter() makes a new array of the same objects
HeapRemoveLayer(h, layerId) ==
    LET saved == HeapSaveStateToHistory(h)
        kept == SelectSeq(saved.objs[h.layers].elems, LAMBDA r : saved.objs[r].id # layerId)
        n == HeapNew(saved, ArrayObject(kept))
    IN [n.heap EXCEPT !.layers = n.ref, !.activeLayer = 0]

\* undo()
HeapUndo(h) ==
    IF h.undoStack # <<>>
    THEN LET c == JsonParseStringify(h, h.layers) IN
         [c.heap EXCEPT !.redoStack = Append(@, c.ref),
                        !.layers = Last(h.undoStack),
                        !.undoStack = Front(@),
                        !.activeLayer = 0]
    ELSE h

\* redo()
HeapRedo(h) ==
    IF h.redoStack # <<>>
    THEN LET c == JsonParseStringify(h, h.layers) IN
         [c.heap EXCEPT !.undoStack = Append(@, c.ref),
                        !.layers = Last(h.redoStack),
                        !.redoStack = Front(@),
                        !.activeLayer = 0]
    ELSE h

\* getLayerAt(x, y) when the topmost image under the point is this.layers[i]
\* (i = 0: no image is under it)
HeapGetLayerAt(h, i) ==
    LET elems == h.objs[h.layers].elems IN
    IF i = 0 THEN [h EXCEPT !.activeLayer = 0]
    ELSE IF h.activeLayer = elems[i] THEN h
    ELSE LET saved == HeapSaveStateToHistory([h EXCEPT !.activeLayer = elems[i]]) IN
         IF Len(elems) > 1 /\ i # Len(elems)
         THEN [saved EXCEPT !.objs[h.layers].elems = MoveToEnd(@, i)]
         ELSE saved

\* handleMouseDown(e) with the pointer tool; part is what of the active
\* layer is under the pointer ("close", "handle" or "none"), i the topmost
\* image under it
HeapHandleMouseDown(h, part, i) ==
    IF h.activeLayer # 0 /\ part = "close"
    THEN HeapRemoveLayer(h, h.objs[h.activeLayer].id)
    ELSE IF h.activeLayer # 0 /\ part = "handle"
    THEN [h EXCEPT !.isResizing = TRUE, !.width = h.objs[h.activeLayer].width]
    ELSE LET hit == HeapGetLayerAt(h, i) IN
         IF i # 0
         THEN [hit EXCEPT !.isDragging = TRUE, !.layerX = h.objs[h.objs[h.layers].elems[i]].x]
         ELSE hit

\* handleMouseMove(e) with the pointer tool, dx from the pointer-down: the
\* fields of the active layer are assigned in place
HeapHandleMouseMove(h, dx) ==
    IF h.activeLayer = 0 THEN h
    ELSE IF h.isDragging
    THEN [h EXCEPT !.objs[h.activeLayer].x = h.layerX + dx]
    ELSE IF h.isResizing
    THEN [h EXCEPT !.objs[h.activeLayer].width =
                       IF h.width + dx >= MinSize THEN h.width + dx ELSE MinSize]
    ELSE h

\* handleMouseUp() with the pointer tool
HeapHandleMouseUp(h) ==
    IF h.isDragging \/ h.isResizing
    THEN HeapSaveStateToHistory([h EXCEPT !.isDragging = FALSE, !.isResizing = FALSE])
    ELSE h

(***************************************************************************)
(* Observation: what the last two handlers were and what LayerManager held *)
(* before the last one; per sheet, what it held when the sheet was left.   *)
(***************************************************************************)
Idle == ~isDragging /\ ~isResizing /\ ~isDrawing

Fields ==
    [layers |-> layers, undoStack |-> undoStack, redoStack |-> redoStack,
     activeTabId |-> activeTabId]

NotLeft == [has |-> FALSE, idle |-> FALSE, layers |-> <<>>, undoStack |-> <<>>,
            redoStack |-> <<>>]

Leaving ==
    [has |-> TRUE, idle |-> Idle, layers |-> layers, undoStack |-> undoStack,
     redoStack |-> redoStack]

(***************************************************************************)
(* background.js: the chrome.runtime.onMessage listener. A message is      *)
(* unsent, or its fetch is in flight, or response.json() is in flight, or  *)
(* the chain has settled; fetches counts the HTTP requests issued for it   *)
(* and responses holds the arguments of its sendResponse calls.            *)
(***************************************************************************)
\* runtime messages of one behaviour of SpecBackground
MaxMessages == 2
MessageIds == 1..MaxMessages

\* HTTP statuses a server answers with
HttpStatuses == {200, 404, 500}
\* response.ok
Ok(status) == status \in 200..299

Unsent ==
    [action |-> "none", phase |-> "unsent", status |-> 0, body |-> "none",
     fetches |-> 0, responses |-> <<>>]

NoMessages == [m \in MessageIds |-> Unsent]

\* sendResponse({ success: true, data })
Success(data) == [success |-> TRUE, data |-> data, error |-> "none", status |-> 0]
\* sendResponse({ success: false, error: error.toString() }); status is the
\* HTTP status the text of the error holds, 0 when it holds none
Failure(error, status) == [success |-> FALSE, data |-> "none", error |-> error, status |-> status]

\* the listener: a fetch is issued for callAiApi and checkStatus, and nothing
\* is done for another action
OnMessage(msg, action) ==
    IF action \in {"callAiApi", "checkStatus"}
    THEN [msg EXCEPT !.action = action, !.phase = "fetch", !.fetches = @ + 1]
    ELSE [msg EXCEPT !.action = action, !.phase = "ignored"]

\* fetch() rejects (network failure): the catch handler answers
FetchRejected(msg) ==
    [msg EXCEPT !.phase = "done",
                !.responses = Append(@, Failure("TypeError: Failed to fetch", 0))]

\* fetch() resolves with a response of this status and body: checkStatus
\* throws when the response is not ok, callAiApi calls response.json()
FetchResolved(msg, status, body) ==
    IF msg.action = "checkStatus" /\ ~Ok(status)
    THEN [msg EXCEPT !.phase = "done", !.status = status, !.body = body,
                     !.responses = Append(@, Failure("Error: HTTP error! status", status))]
    ELSE [msg EXCEPT !.phase = "json", !.status = status, !.body = body]

\* response.json() settles: the body is answered as data when it is JSON, and
\* the SyntaxError is answered when it is not
JsonSettled(msg) ==
    [msg EXCEPT !.phase = "done",
                !.responses = Append(@, IF msg.body = "json"
                                        THEN Success(msg.body)
                                        ELSE Failure("SyntaxError", 0))]

(***************************************************************************)
(* Renderer.downloadCanvas and Renderer.printCanvas: the closure of a call *)
(* holds the layers, the Images whose onload has not run, the layers       *)
(* painted on tempCanvas in the order of painting, loadedCount, and how    *)
(* often renderAndDownload / renderAndPrint ran                            *)
(***************************************************************************)
NoJob ==
    [kind |-> "none", layers |-> <<>>, pending |-> {}, painted |-> <<>>,
     loadedCount |-> 0, fired |-> 0]

\* downloadCanvas() up to its return
DownloadCanvas(ls) ==
    [kind |-> "download", layers |-> ls, pending |-> 1..Len(ls), painted |-> <<>>,
     loadedCount |-> 0, fired |-> IF Len(ls) = 0 THEN 1 ELSE 0]

\* printCanvas() up to its return
PrintCanvas(ls) ==
    LET totalImages == Cardinality({i \in 1..Len(ls) : ls[i].type = "image"}) IN
    [kind |-> "print", layers |-> ls,
     pending |-> IF totalImages = 0 THEN {} ELSE 1..Len(ls), painted |-> <<>>,
     loadedCount |-> 0, fired |-> IF totalImages = 0 THEN 1 ELSE 0]

\* img.onload of the Image of layer i: drawImage, loadedCount++, and
\* renderAndDownload / renderAndPrint when loadedCount is the number of layers
ExportOnload(j, i) ==
    [j EXCEPT !.pending = @ \ {i},
              !.painted = Append(@, i),
              !.loadedCount = @ + 1,
              !.fired = IF j.loadedCount + 1 = Len(j.layers) THEN @ + 1 ELSE @]

\* a handler of op has run
Recorded(op) ==
    /\ budget > 0
    /\ budget' = budget - 1
    /\ lastOp' = op
    /\ prevOp' = IF deep THEN lastOp ELSE prevOp
    /\ deep' = deep
    /\ pre' = Fields
    /\ setThrows' = setThrows
    /\ messages' = messages

(***************************************************************************)
(* Renderer.renderAllLayers().  The main canvas is held as the ids of the  *)
(* layers painted on it since it was last cleared, in the order of         *)
(* painting; an Image whose src has been set is held with the layer it is  *)
(* to paint and the call that created it.  The canvas is followed only in  *)
(* behaviours that start with on = TRUE.                                   *)
(***************************************************************************)
NoRender == [on |-> FALSE, calls |-> 0, painted |-> <<>>, pending |-> {}]

\* renderAllLayers() with ls the layers: clearRect, then one Image per layer
RenderAllLayers(r, ls) ==
    [r EXCEPT !.calls = @ + 1,
              !.painted = <<>>,
              !.pending = @ \cup {[id |-> ls[i].id, z |-> i, call |-> r.calls + 1] :
                                      i \in 1..Len(ls)}]

\* img.onload of the Image l: drawImage on the main canvas
RenderOnload(r, l) ==
    [r EXCEPT !.painted = Append(@, l.id), !.pending = @ \ {l}]

\* whether the handler of op, in the step it takes, calls renderAllLayers()
CallsRenderAllLayers(op) ==
    \/ op \in {"addImageLayer", "addDrawingLayer", "removeLayer", "clearLayers",
               "gestureEnd", "addTab", "switchToTab"}
    \/ op = "undo" /\ undoStack # <<>>
    \/ op = "redo" /\ redoStack # <<>>
    \/ op = "mouseDown" /\ layers' # layers
    \/ op = "removeTab" /\ activeTabId' # activeTabId

\* the main canvas after the handler of op
Rendered(op) ==
    IF render.on /\ CallsRenderAllLayers(op) THEN RenderAllLayers(render, layers')
    ELSE render

\* a handler of op has run, and j is what the export closure holds after it
Observed(op, j) == Recorded(op) /\ job' = j /\ heap' = heap /\ render' = Rendered(op)

Observe(op) == Observed(op, job)

(***************************************************************************)
(* The events of the layer-model variant                                   *)
(***************************************************************************)
\* the encoded images of the image layers shown: renderAllLayers and
\* getImageHeight have set them as the src of an Image
Requested == {layers[i].data : i \in {j \in 1..Len(layers) : layers[j].type = "image"}}

\* the user picks a file: reader.readAsDataURL(file)
StartUpload(data) ==
    /\ data \notin reading
    /\ reading' = reading \cup {data}
    /\ Observe("startUpload")
    /\ UNCHANGED <<lmVars, imVars, avail, tabVars, lsVars, rasterVars, left>>

\* reader.onload: App.layerManager.addImageLayer(event.target.result)
ReaderLoad(data) ==
    /\ data \in reading
    /\ reading' = reading \ {data}
    /\ AddImageLayer(data)
    /\ Observe("addImageLayer")
    /\ UNCHANGED <<imVars, avail, tabVars, lsTabs, lsActive, rasterVars, left>>

\* an image set as src has been fetched and decoded
DecodeComplete(data) ==
    /\ data \in Requested \ avail
    /\ avail' = avail \cup {data}
    /\ Observe("decode")
    /\ UNCHANGED <<lmVars, imVars, reading, tabVars, lsVars, rasterVars, left>>

\* a click on a tool button
ClickTool(tool) ==
    /\ SetTool(tool)
    /\ Observe("setTool")
    /\ UNCHANGED <<lmVars, avail, reading, tabVars, lsVars, rasterVars, left>>

\* mousedown / touchstart on the overlay canvas
MouseDown(p) ==
    /\ HandleMouseDown(p)
    /\ Observe(IF activeTool = "pointer" /\ activeLayer # 0
                  /\ Within(p, GetCloseButton(layers[activeLayer]), CloseRadius)
               THEN "removeLayer" ELSE "mouseDown")
    /\ UNCHANGED <<avail, reading, tabVars, lsTabs, lsActive, rasterVars, left>>

\* mousemove / touchmove on the overlay canvas
MouseMove(p) ==
    /\ HandleMouseMove(p)
    /\ Observe("mouseMove")
    /\ UNCHANGED <<avail, reading, tabVars, lsTabs, lsActive, rasterVars, left>>

\* mouseup / mouseleave / touchend on the overlay canvas
MouseUp(data) ==
    /\ HandleMouseUp(data)
    /\ Observe(IF isDragging \/ isResizing THEN "gestureEnd"
               ELSE IF activeTool = "brush" /\ isDrawing THEN "addDrawingLayer"
               ELSE "mouseUp")
    /\ UNCHANGED <<avail, reading, tabVars, lsTabs, lsActive, rasterVars, left>>

\* a click on #clearButton
ClickClear ==
    /\ ClearLayers
    /\ Observe("clearLayers")
    /\ UNCHANGED <<imVars, avail, reading, tabVars, lsTabs, lsActive, rasterVars, left>>

\* Ctrl/Cmd+Z
KeyUndo ==
    /\ Undo
    /\ Observe("undo")
    /\ UNCHANGED <<imVars, avail, reading, tabVars, lsTabs, lsActive, rasterVars, left>>

\* Ctrl/Cmd+Y
KeyRedo ==
    /\ Redo
    /\ Observe("redo")
    /\ UNCHANGED <<imVars, avail, reading, tabVars, lsTabs, lsActive, rasterVars, left>>

\* a click on #add-tab-btn
ClickAddTab ==
    /\ nextTabId <= MaxTabIds
    /\ AddTab
    /\ Observe("addTab")
    /\ left' = [left EXCEPT ![activeTabId] = Leaving]
    /\ UNCHANGED <<imVars, avail, reading, rasterVars>>

\* a click on the tab element of sheet tabId
ClickTab(tabId) ==
    /\ tabId \in tabDom
    /\ SwitchToTab(tabId, tabList, tabDom, lsLayers)
    /\ Observe("switchToTab")
    /\ left' = [left EXCEPT ![activeTabId] = Leaving]
    /\ UNCHANGED <<tabList, tabDom, nextTabId, lsLayers, imVars, avail, reading,
                   rasterVars>>

\* a click on the close button of the tab element of sheet tabId
ClickClose(tabId) ==
    /\ tabId \in tabDom
    /\ RemoveTab(tabId)
    /\ Observe(IF Len(tabList) = 1 THEN "removeTabRejected" ELSE "removeTab")
    /\ left' = IF Len(tabList) = 1 THEN left ELSE [left EXCEPT ![tabId] = NotLeft]
    /\ UNCHANGED <<imVars, avail, reading, rasterVars>>

\* the API of LayerManager, called directly
CallAddDrawingLayer(data) ==
    /\ AddDrawingLayer(data)
    /\ Observe("addDrawingLayer")
    /\ UNCHANGED <<imVars, avail, reading, tabVars, lsTabs, lsActive, rasterVars, left>>

CallAddImageLayer(data) ==
    /\ AddImageLayer(data)
    /\ Observe("addImageLayer")
    /\ UNCHANGED <<imVars, avail, reading, tabVars, lsTabs, lsActive, rasterVars, left>>

CallRemoveLayer(i) ==
    /\ i \in 1..Len(layers)
    /\ RemoveLayer(layers[i].id)
    /\ Observe("removeLayer")
    /\ UNCHANGED <<imVars, avail, reading, tabVars, lsTabs, lsActive, rasterVars, left>>

(***************************************************************************)
(* The canvas-raster variant (src/popup.js).  The surface is one canvas;   *)
(* a raster (what toDataURL() returns) is the set of strokes painted on    *)
(* it.  Every uploaded image has an overlay canvas of its own.  A raster   *)
(* on a history stack carries, next to its data, the sheet that was active *)
(* when it was captured: the program does not hold that, it is recorded to *)
(* state the claims.  Of the position and size of an image the state      *)
(* holds the left of its container and the width of its <img>, and of an   *)
(* overlay canvas its width.                                               *)
(***************************************************************************)
\* strokes one behaviour draws at most
MaxStrokes == 2

\* images one behaviour uploads at most
MaxImages == 2

ImageIdSet == 1..MaxImages

\* localStorage of popup.js holds strings: a raster, or ''
RasterString(data) == [k |-> "raster", v |-> data]
EmptyString == [k |-> "empty", v |-> {}]

\* drawingData: null
NoDrawing == [k |-> "null", v |-> {}]

\* getFromLocalStorage(key, ''): localStorage.getItem(key) || ''
PopupGetFromLocalStorage(entry) == IF entry.k = "raster" THEN entry ELSE EmptyString

\* this.canvasElement.toDataURL(), captured while sheet tab is active
ToDataURL(data, tab) == [data |-> data, tab |-> tab]

NothingRestored == [by |-> "none", origin |-> 0, at |-> 0, data |-> {}]

\* the width of a canvas element that has been given none
DefaultCanvasWidth == 300

\* document.createElement('canvas'): of the default width, and blank
NewCanvas == [width |-> DefaultCanvasWidth, data |-> {}]

\* imageCanvas.toDataURL(): the strokes on the overlay in an encoded image
\* that is as wide as the overlay
OverlayString(imageCanvas) == [k |-> "raster", v |-> imageCanvas.data, w |-> imageCanvas.width]

\* the gesture fields of ImageManager after its constructor; downX is an
\* observation: clientX of the last pointer-down on a handle
NoGesture ==
    [isDragging |-> FALSE, isResizing |-> FALSE, activeHandle |-> "none", startX |-> 0,
     initialWidth |-> 0, initialLeft |-> 0, downX |-> 0]

\* width and left of an uploaded image when n images are on the sheet
NewImageStyle(n) == [width |-> 200, left |-> 50 + n * 20]

\* an Image whose src has been set: by is the function that set it, at the
\* sheet active then
PendingLoad(snapshot, by) ==
    [data |-> snapshot.data, origin |-> snapshot.tab, by |-> by, at |-> pActiveTabId]

\* KeyboardShortcutManager.saveState()
KsmSaveState ==
    LET pushed == Append(kUndoStack, ToDataURL(canvas, pActiveTabId)) IN
    /\ kUndoStack' = IF Len(pushed) > HistoryLimit THEN Tail(pushed) ELSE pushed
    /\ kRedoStack' = <<>>

\* KeyboardShortcutManager.undo()
KsmUndo ==
    IF kUndoStack # <<>>
    THEN /\ kUndoStack' = Front(kUndoStack)
         /\ kRedoStack' = Append(kRedoStack, ToDataURL(canvas, pActiveTabId))
         /\ loads' = Append(loads, PendingLoad(Last(kUndoStack), "undo"))
         /\ pCanvasState' = [pCanvasState EXCEPT ![pActiveTabId] = RasterString(canvas)]
    ELSE UNCHANGED <<kUndoStack, kRedoStack, loads, pCanvasState>>

\* KeyboardShortcutManager.redo()
KsmRedo ==
    IF kRedoStack # <<>>
    THEN /\ kRedoStack' = Front(kRedoStack)
         /\ kUndoStack' = Append(kUndoStack, ToDataURL(canvas, pActiveTabId))
         /\ loads' = Append(loads, PendingLoad(Last(kRedoStack), "redo"))
         /\ pCanvasState' = [pCanvasState EXCEPT ![pActiveTabId] = RasterString(canvas)]
    ELSE UNCHANGED <<kUndoStack, kRedoStack, loads, pCanvasState>>

(***************************************************************************)
(* ImageManager and the surface.  The functions below call one another     *)
(* and change the canvas, the pending loads and the image layer in         *)
(* sequence, so each is written as a function from the state it finds      *)
(* (a record s of these variables) to the state it leaves.                 *)
(***************************************************************************)
surfaceVars == <<canvas, loads, images, currentImage, imageDrawings, imageCanvases,
                 imgPending, drawingLoads>>

Surface ==
    [canvas |-> canvas, loads |-> loads, images |-> images, currentImage |-> currentImage,
     imageDrawings |-> imageDrawings, imageCanvases |-> imageCanvases,
     imgPending |-> imgPending, drawingLoads |-> drawingLoads]

SetSurface(s) ==
    /\ canvas' = s.canvas
    /\ loads' = s.loads
    /\ images' = s.images
    /\ currentImage' = s.currentImage
    /\ imageDrawings' = s.imageDrawings
    /\ imageCanvases' = s.imageCanvases
    /\ imgPending' = s.imgPending
    /\ drawingLoads' = s.drawingLoads

ImagesIn(seq) == {seq[i] : i \in DOMAIN seq}

\* ImageManager.renderImageDrawing(): clears the surface and, if the
\* selected image has drawing data, starts loading it
RenderImageDrawing(s, tabId) ==
    LET cleared == [s EXCEPT !.canvas = {}]
        drawingData == IF s.currentImage # 0 THEN s.imageDrawings[s.currentImage]
                       ELSE NoDrawing IN
    IF drawingData.k = "raster"
    THEN [cleared EXCEPT !.loads = Append(@, [data |-> drawingData.v, origin |-> tabId,
                                              by |-> "renderImageDrawing", at |-> tabId])]
    ELSE cleared

\* ScribbleCanvas.loadCanvasState() with sheet tabId active and store the
\* canvasState_ entries
LoadCanvasState(s, tabId, store) ==
    LET savedState == PopupGetFromLocalStorage(store[tabId]) IN
    IF s.currentImage # 0
    THEN RenderImageDrawing(s, tabId)
    ELSE IF savedState.k = "raster"
         THEN [s EXCEPT !.loads = Append(@, [data |-> savedState.v, origin |-> tabId,
                                             by |-> "loadCanvasState", at |-> tabId])]
         ELSE [s EXCEPT !.canvas = {}]

\* ImageManager.deselectAllImages()
DeselectAllImages(s, tabId, store) ==
    LoadCanvasState([s EXCEPT !.currentImage = 0], tabId, store)

\* ImageManager.selectImage(container)
SelectImage(s, id, tabId, store) ==
    LoadCanvasState([DeselectAllImages(s, tabId, store) EXCEPT !.currentImage = id],
                    tabId, store)

\* ImageManager.loadDrawingToCanvas(canvas, drawingData), canvas being the
\* overlay of image id; by is the function that calls it
LoadDrawingToCanvas(s, id, drawingData, by) ==
    [s EXCEPT !.drawingLoads = Append(@, [image |-> id, data |-> drawingData.v,
                                          width |-> drawingData.w, by |-> by])]

\* ImageManager.createImageElement(imageData).  The overlay canvas is a new
\* one: a drawing still loading into an earlier canvas of this image no
\* longer reaches the image.
CreateImageElement(s, imageData, tabId, store) ==
    LET id == imageData.id
        added == [s EXCEPT !.images = Append(@, id),
                           !.imageCanvases[id] = NewCanvas,
                           !.drawingLoads = SelectSeq(@, LAMBDA l : l.image # id),
                           !.imageDrawings[id] = imageData.drawingData]
        selected == SelectImage(added, id, tabId, store)
        waiting == [selected EXCEPT !.imgPending = @ \cup {id}] IN
    IF imageData.drawingData.k = "raster"
    THEN LoadDrawingToCanvas(waiting, id, imageData.drawingData, "createImageElement")
    ELSE waiting

\* ImageManager.saveImagesState(): the containers of the image layer, in
\* document order, written under imagesState_<activeTabId>
SaveImagesState(s, tabId, imagesStore) ==
    [imagesStore EXCEPT ![tabId] =
        Stored([i \in 1..Len(s.images) |->
                    [id |-> s.images[i], drawingData |-> s.imageDrawings[s.images[i]]]])]

RECURSIVE CreateImageElements(_, _, _, _)
\* imagesData.forEach(imageData => this.createImageElement(imageData))
CreateImageElements(s, imagesData, tabId, store) ==
    IF imagesData = <<>> THEN s
    ELSE CreateImageElements(CreateImageElement(s, Head(imagesData), tabId, store),
                             Tail(imagesData), tabId, store)

\* ImageManager.loadImages()
LoadImages(s, tabId, store, imagesStore) ==
    IF imagesStore[tabId].k = "json"
    THEN CreateImageElements(s, imagesStore[tabId].v, tabId, store)
    ELSE s

\* ImageManager.setActiveTab(tabId).  ImageManager.activeTabId is assigned
\* here, in switchToTab, right after TabManager.activeTabId: pActiveTabId
\* holds both.
SetActiveTab(s, tabId, store, imagesStore) ==
    LoadImages([s EXCEPT !.images = <<>>, !.currentImage = 0], tabId, store, imagesStore)

\* ImageManager.deleteImage(imageId), up to its saveImagesState()
DeletedImage(s, id) ==
    [s EXCEPT !.images = SelectSeq(@, LAMBDA i : i # id),
              !.currentImage = IF @ = id THEN 0 ELSE @,
              !.imageDrawings[id] = NoDrawing,
              !.imageCanvases[id] = NewCanvas]

\* saveTabsToStorage() of popup.js
PopupSaveTabsToStorage(tl, id) ==
    /\ pTabs' = Stored(tl)
    /\ pActive' = Stored(id)

\* TabManager.switchToTab(tabId) of popup.js
PopupSwitchToTab(tabId, tl, dom, store) ==
    IF tabId \in dom
    THEN /\ pActiveTabId' = tabId
         /\ SetSurface(LoadCanvasState(SetActiveTab(Surface, tabId, store, pImagesState),
                                       tabId, store))
         /\ PopupSaveTabsToStorage(tl, tabId)
    ELSE UNCHANGED <<pActiveTabId, surfaceVars, pTabs, pActive>>

\* TabManager.addTab() of popup.js
PopupAddTab ==
    LET newTab == [id |-> pNextTabId, title |-> GenerateUniqueTabTitle(pTabList)] IN
    /\ pNextTabId' = pNextTabId + 1
    /\ pTabList' = Append(pTabList, newTab)
    /\ pTabDom' = TabIds(pTabList')
    /\ PopupSwitchToTab(newTab.id, pTabList', pTabDom', pCanvasState)
    /\ UNCHANGED <<pCanvasState, pImagesState, pImageState>>

\* TabManager.removeTab(tabId) of popup.js: the keys it removes are
\* canvasState_<tabId> and imageState_<tabId>
PopupRemoveTab(tabId) ==
    IF Len(pTabList) = 1
    THEN UNCHANGED <<pTabVars, surfaceVars, pLsVars>>
    ELSE /\ pTabList' = SelectSeq(pTabList, LAMBDA t : t.id # tabId)
         /\ pCanvasState' = [pCanvasState EXCEPT ![tabId] = Absent]
         /\ pImageState' = [pImageState EXCEPT ![tabId] = Absent]
         /\ UNCHANGED <<pNextTabId, pImagesState>>
         /\ IF pActiveTabId = tabId
            THEN /\ PopupSwitchToTab(pTabList'[1].id, pTabList', pTabDom, pCanvasState')
                 /\ UNCHANGED pTabDom
            ELSE /\ PopupSaveTabsToStorage(pTabList', pActiveTabId)
                 /\ pTabDom' = TabIds(pTabList')
                 /\ UNCHANGED <<pActiveTabId, surfaceVars>>

rasterHistory == <<kUndoStack, kRedoStack>>
rasterRest == <<layerVars, left>>
uploadVars == <<imIsDragging, imGesture, imStyle, uploading, nextImageId>>

\* mousedown / touchstart on #scribbleCanvas: startDrawing(x, y)
StartDrawing ==
    /\ nextStroke <= MaxStrokes
    /\ Observe("startDrawing")
    /\ IF pActiveTool # "brush"
       THEN UNCHANGED <<drawing, stroke, nextStroke, rasterHistory, strokeTarget>>
       ELSE /\ drawing' = TRUE
            /\ stroke' = nextStroke
            /\ nextStroke' = nextStroke + 1
            /\ strokeTarget' = currentImage
            /\ KsmSaveState
    /\ UNCHANGED <<surfaceVars, uploadVars, pActiveTool, restored, pTabVars, pLsVars,
                   rasterRest>>

\* mousemove / touchmove: draw(x, y) strokes the path once it has two
\* points, on the overlay of the selected image if there is one.  An overlay
\* that has not the width of its image is resized first, which blanks it,
\* and its drawing data is loaded again.
Draw ==
    /\ Observe("draw")
    /\ IF drawing /\ pActiveTool = "brush"
       THEN IF currentImage # 0
            THEN LET imageCanvas == imageCanvases[currentImage]
                     existingData == imageDrawings[currentImage]
                     offsetWidth == imStyle[currentImage].width
                     resized == IF imageCanvas.width = offsetWidth THEN Surface
                                ELSE [Surface EXCEPT !.imageCanvases[currentImage] =
                                                          [width |-> offsetWidth, data |-> {}]]
                     reloaded == IF imageCanvas.width # offsetWidth
                                      /\ existingData.k = "raster"
                                 THEN LoadDrawingToCanvas(resized, currentImage, existingData,
                                                          "draw")
                                 ELSE resized IN
                 SetSurface([reloaded EXCEPT !.imageCanvases[currentImage].data =
                                                  @ \cup {stroke}])
            ELSE /\ canvas' = canvas \cup {stroke}
                 /\ UNCHANGED <<loads, images, currentImage, imageDrawings, imageCanvases,
                                imgPending, drawingLoads>>
       ELSE UNCHANGED surfaceVars
    /\ UNCHANGED <<drawing, stroke, nextStroke, strokeTarget, rasterHistory, uploadVars,
                   pActiveTool, restored, pTabVars, pLsVars, rasterRest>>

\* mouseup / mouseleave: stopDrawing()
StopDrawing ==
    /\ Observe("stopDrawing")
    /\ IF drawing
       THEN /\ drawing' = FALSE
            /\ IF currentImage # 0
               THEN /\ imageDrawings' = [imageDrawings EXCEPT ![currentImage] =
                                            OverlayString(imageCanvases[currentImage])]
                    /\ pImagesState' = SaveImagesState([Surface EXCEPT !.imageDrawings =
                                                            imageDrawings'],
                                                       pActiveTabId, pImagesState)
                    /\ UNCHANGED pCanvasState
               ELSE /\ pCanvasState' = [pCanvasState EXCEPT ![pActiveTabId] =
                                            RasterString(canvas)]
                    /\ UNCHANGED <<imageDrawings, pImagesState>>
       ELSE UNCHANGED <<drawing, pCanvasState, imageDrawings, pImagesState>>
    /\ UNCHANGED <<canvas, loads, images, currentImage, imageCanvases, imgPending,
                   drawingLoads, stroke, nextStroke, strokeTarget, rasterHistory, uploadVars,
                   pActiveTool, restored, pTabVars, pTabs, pActive, pImageState, rasterRest>>

\* Ctrl+Z
PopupKeyUndo ==
    /\ Observe("undo")
    /\ KsmUndo
    /\ UNCHANGED <<canvas, images, currentImage, imageDrawings, imageCanvases, imgPending,
                   drawingLoads, drawing, stroke, nextStroke, strokeTarget, uploadVars,
                   pActiveTool, restored, pTabVars, pTabs, pActive, pImagesState,
                   pImageState, rasterRest>>

\* Ctrl+Y
PopupKeyRedo ==
    /\ Observe("redo")
    /\ KsmRedo
    /\ UNCHANGED <<canvas, images, currentImage, imageDrawings, imageCanvases, imgPending,
                   drawingLoads, drawing, stroke, nextStroke, strokeTarget, uploadVars,
                   pActiveTool, restored, pTabVars, pTabs, pActive, pImagesState,
                   pImageState, rasterRest>>

\* img.onload of the i-th pending Image that is to be painted on the
\* surface: drawImage(img, 0, 0), after a clearRect except in
\* renderImageDrawing, which cleared when it started the load
ImageOnload(i) ==
    /\ i \in 1..Len(loads)
    /\ Observe("onload")
    /\ canvas' = IF loads[i].by = "renderImageDrawing" THEN canvas \cup loads[i].data
                 ELSE loads[i].data
    /\ restored' = loads[i]
    /\ loads' = SubSeq(loads, 1, i - 1) \o SubSeq(loads, i + 1, Len(loads))
    /\ UNCHANGED <<images, currentImage, imageDrawings, imageCanvases, imgPending,
                   drawingLoads, drawing, stroke, nextStroke, strokeTarget, rasterHistory,
                   uploadVars, pActiveTool, pTabVars, pLsVars, rasterRest>>

\* a click on #clearButton: saveState, clearRect, clearImages, save ''
PopupClickClear ==
    /\ Observe("clear")
    /\ KsmSaveState
    /\ canvas' = {}
    /\ images' = <<>>
    /\ currentImage' = 0
    /\ imageDrawings' = [i \in ImageIdSet |-> NoDrawing]
    /\ pImagesState' = [pImagesState EXCEPT ![pActiveTabId] = Absent]
    /\ pCanvasState' = [pCanvasState EXCEPT ![pActiveTabId] = EmptyString]
    /\ UNCHANGED <<loads, imageCanvases, imgPending, drawingLoads, drawing, stroke,
                   nextStroke, strokeTarget, uploadVars, pActiveTool, restored, pTabVars,
                   pTabs, pActive, pImageState, rasterRest>>

\* a click on a tool button: ToolManager.setTool(tool)
PopupClickTool(tool) ==
    /\ Observe("setTool")
    /\ IF pActiveTool = tool
       THEN UNCHANGED <<pActiveTool, surfaceVars>>
       ELSE /\ pActiveTool' = tool
            /\ SetSurface(DeselectAllImages(Surface, pActiveTabId, pCanvasState))
    /\ UNCHANGED <<drawing, stroke, nextStroke, strokeTarget, rasterHistory, uploadVars,
                   restored, pTabVars, pLsVars, rasterRest>>

\* a click on #add-tab-btn
PopupClickAddTab ==
    /\ pNextTabId <= MaxTabIds
    /\ Observe("addTab")
    /\ PopupAddTab
    /\ UNCHANGED <<drawing, stroke, nextStroke, strokeTarget, rasterHistory, uploadVars,
                   pActiveTool, restored, rasterRest>>

\* a click on the tab element of sheet tabId
PopupClickTab(tabId) ==
    /\ tabId \in pTabDom
    /\ Observe("switchToTab")
    /\ PopupSwitchToTab(tabId, pTabList, pTabDom, pCanvasState)
    /\ UNCHANGED <<pTabList, pTabDom, pNextTabId, pCanvasState, pImagesState, pImageState,
                   drawing, stroke, nextStroke, strokeTarget, rasterHistory, uploadVars,
                   pActiveTool, restored, rasterRest>>

\* a click on the close button of the tab element of sheet tabId
PopupClickClose(tabId) ==
    /\ tabId \in pTabDom
    /\ Observe(IF Len(pTabList) = 1 THEN "removeTabRejected" ELSE "removeTab")
    /\ PopupRemoveTab(tabId)
    /\ UNCHANGED <<drawing, stroke, nextStroke, strokeTarget, rasterHistory, uploadVars,
                   pActiveTool, restored, rasterRest>>

\* blur of the title input of the tab element of sheet tabId: saveTitle();
\* typed is input.value.trim(), and a blank input keeps the title
PopupRenameTab(tabId, typed) ==
    /\ tabId \in pTabDom
    /\ Observe("saveTitle")
    /\ IF tabId \in TabIds(pTabList)
       THEN /\ pTabList' = [i \in DOMAIN pTabList |->
                               IF pTabList[i].id = tabId /\ typed # [text |-> "", n |-> NaN]
                               THEN [pTabList[i] EXCEPT !.title = typed]
                               ELSE pTabList[i]]
            /\ PopupSaveTabsToStorage(pTabList', pActiveTabId)
       ELSE UNCHANGED <<pTabList, pTabs, pActive>>
    /\ UNCHANGED <<pActiveTabId, pTabDom, pNextTabId, surfaceVars, drawing, stroke,
                   nextStroke, strokeTarget, rasterHistory, uploadVars, pActiveTool,
                   restored, pCanvasState, pImagesState, pImageState, rasterRest>>

\* a file is chosen in #image-upload: handleImageUpload starts a FileReader
ChooseImage ==
    /\ nextImageId + uploading <= MaxImages
    /\ Observe("handleImageUpload")
    /\ uploading' = uploading + 1
    /\ UNCHANGED <<surfaceVars, imIsDragging, imGesture, imStyle, nextImageId, drawing,
                   stroke, nextStroke, strokeTarget, rasterHistory, pActiveTool, restored,
                   pTabVars, pLsVars, rasterRest>>

\* reader.onload of an upload: createImageElement, saveImagesState
UploadReaderLoad ==
    /\ uploading > 0
    /\ Observe("upload")
    /\ uploading' = uploading - 1
    /\ nextImageId' = nextImageId + 1
    /\ LET created == CreateImageElement(Surface,
                                         [id |-> nextImageId, drawingData |-> NoDrawing],
                                         pActiveTabId, pCanvasState) IN
       /\ SetSurface(created)
       /\ pImagesState' = SaveImagesState(created, pActiveTabId, pImagesState)
    /\ imStyle' = [imStyle EXCEPT ![nextImageId] = NewImageStyle(Len(images))]
    /\ UNCHANGED <<imIsDragging, imGesture, drawing, stroke, nextStroke, strokeTarget,
                   rasterHistory,
                   pActiveTool, restored, pTabVars, pCanvasState, pTabs, pActive,
                   pImageState, rasterRest>>

\* img.onload of the <img> of image id: saveImagesState
ImgOnload(id) ==
    /\ id \in imgPending
    /\ Observe("imgOnload")
    /\ imgPending' = imgPending \ {id}
    /\ pImagesState' = SaveImagesState(Surface, pActiveTabId, pImagesState)
    /\ UNCHANGED <<canvas, loads, images, currentImage, imageDrawings, imageCanvases,
                   drawingLoads, uploadVars, drawing, stroke, nextStroke, strokeTarget,
                   rasterHistory, pActiveTool, restored, pTabVars, pCanvasState, pTabs,
                   pActive, pImageState, rasterRest>>

\* img.onload of the i-th drawing loading into an overlay: the overlay takes
\* the size of the drawing, which blanks it, and the drawing is painted
DrawingOnload(i) ==
    /\ i \in 1..Len(drawingLoads)
    /\ Observe("drawingOnload")
    /\ imageCanvases' = [imageCanvases EXCEPT ![drawingLoads[i].image] =
                             [width |-> drawingLoads[i].width, data |-> drawingLoads[i].data]]
    /\ drawingLoads' = SubSeq(drawingLoads, 1, i - 1)
                           \o SubSeq(drawingLoads, i + 1, Len(drawingLoads))
    /\ UNCHANGED <<canvas, loads, images, currentImage, imageDrawings, imgPending,
                   uploadVars, drawing, stroke, nextStroke, strokeTarget, rasterHistory,
                   pActiveTool, restored, pTabVars, pLsVars, rasterRest>>

\* Math.max(50, w) of ImageManager.handleMouseMove
PopupMinWidth == 50
AtLeastMinWidth(w) == IF w >= PopupMinWidth THEN w ELSE PopupMinWidth

\* the resize branch of ImageManager.handleMouseMove: the width and the left
\* it sets for the pointer at x
PopupResized(style, g, x) ==
    LET dx == x - g.startX
        grown == AtLeastMinWidth(g.initialWidth + dx)
        shrunk == AtLeastMinWidth(g.initialWidth - dx)
    IN IF g.activeHandle \in {"br", "tr"}
       THEN [width |-> grown, left |-> g.initialLeft]
       ELSE [width |-> shrunk, left |-> g.initialLeft + g.initialWidth - shrunk]

\* mousedown on #image-layer: ImageManager.handleMouseDown(e); target is the
\* image whose container (or handle) is under the pointer, 0 if none is;
\* handle is the handle under the pointer, "none" if none is; x is clientX
ImageLayerMouseDown(target, handle, x) ==
    /\ target \in ImagesIn(images) \cup {0}
    /\ handle # "none" => target # 0
    /\ Observe("imageMouseDown")
    /\ IF pActiveTool # "pointer"
       THEN /\ SetSurface(DeselectAllImages(Surface, pActiveTabId, pCanvasState))
            /\ UNCHANGED <<imIsDragging, imGesture>>
       ELSE IF target # 0
            THEN /\ SetSurface(SelectImage(Surface, target, pActiveTabId, pCanvasState))
                 /\ imIsDragging' = TRUE
                 /\ imGesture' =
                      IF handle # "none"
                      THEN [imGesture EXCEPT !.isResizing = TRUE,
                                             !.activeHandle = handle,
                                             !.initialWidth = imStyle[target].width,
                                             !.initialLeft = imStyle[target].left,
                                             !.downX = x]
                      ELSE [imGesture EXCEPT !.isDragging = TRUE,
                                             !.startX = x,
                                             !.initialLeft = imStyle[target].left]
            ELSE UNCHANGED <<surfaceVars, imIsDragging, imGesture>>
    /\ UNCHANGED <<imStyle, uploading, nextImageId, drawing, stroke, nextStroke, strokeTarget,
                   rasterHistory, pActiveTool, restored, pTabVars, pLsVars, rasterRest>>

\* mousemove / touchmove on the document: ImageManager.handleMouseMove(e)
ImageMouseMove(x) ==
    /\ Observe("imageMouseMove")
    /\ imStyle' =
         IF pActiveTool # "pointer" \/ currentImage = 0 THEN imStyle
         ELSE IF imGesture.isDragging
         THEN [imStyle EXCEPT ![currentImage].left = imGesture.initialLeft + (x - imGesture.startX)]
         ELSE IF imGesture.isResizing
         THEN [imStyle EXCEPT ![currentImage] = PopupResized(@, imGesture, x)]
         ELSE imStyle
    /\ UNCHANGED <<surfaceVars, imIsDragging, imGesture, uploading, nextImageId, drawing,
                   stroke, nextStroke, strokeTarget, rasterHistory, pActiveTool, restored,
                   pTabVars, pLsVars, rasterRest>>

\* mouseup / touchend on the document: ImageManager.handleMouseUp()
ImageMouseUp ==
    /\ Observe("imageMouseUp")
    /\ imIsDragging' = FALSE
    /\ imGesture' = [imGesture EXCEPT !.isDragging = FALSE, !.isResizing = FALSE,
                                      !.activeHandle = "none"]
    /\ pImagesState' = IF imIsDragging
                       THEN SaveImagesState(Surface, pActiveTabId, pImagesState)
                       ELSE pImagesState
    /\ UNCHANGED <<surfaceVars, imStyle, uploading, nextImageId, drawing, stroke, nextStroke,
                   strokeTarget, rasterHistory, pActiveTool, restored, pTabVars,
                   pCanvasState, pTabs, pActive, pImageState, rasterRest>>

\* a click on the delete button of image id: deleteImage(id)
ClickDeleteImage(id) ==
    /\ id \in ImagesIn(images)
    /\ Observe("deleteImage")
    /\ LET deleted == DeletedImage(Surface, id) IN
       /\ pImagesState' = SaveImagesState(deleted, pActiveTabId, pImagesState)
       /\ SetSurface(LoadCanvasState(deleted, pActiveTabId, pCanvasState))
    /\ UNCHANGED <<uploadVars, drawing, stroke, nextStroke, strokeTarget, rasterHistory,
                   pActiveTool, restored, pTabVars, pCanvasState, pTabs, pActive,
                   pImageState, rasterRest>>

(***************************************************************************)
(* Initial state: the program has started on an empty store.               *)
(* TabManager.initialize finds no registry and calls addTab(), which       *)
(* switches to the new sheet: loadState() finds no layers.                 *)
(***************************************************************************)
FirstTab == [id |-> 1, title |-> SheetTitle(Num(1))]

InitLayerModel ==
    /\ layers = <<>>
    /\ activeLayer = 0
    /\ undoStack = << <<>> >>
    /\ redoStack = <<>>
    /\ nextLayerId = 1
    /\ activeTool = "brush"
    /\ isDragging = FALSE
    /\ isResizing = FALSE
    /\ dragStart = NoDragStart
    /\ resizeHandle = "none"
    /\ isDrawing = FALSE
    /\ avail = {}
    /\ reading = {}
    /\ tabList = <<FirstTab>>
    /\ activeTabId = 1
    /\ tabDom = {1}
    /\ nextTabId = 2
    /\ lsLayers = [t \in TabIdSet |-> Absent]
    /\ lsTabs = SaveToLocalStorage(<<FirstTab>>)
    /\ lsActive = SaveToLocalStorage(1)

InitRaster ==
    /\ pTabList = <<FirstTab>>
    /\ pActiveTabId = 1
    /\ pTabDom = {1}
    /\ pNextTabId = 2
    /\ canvas = {}
    /\ drawing = FALSE
    /\ stroke = 0
    /\ nextStroke = 1
    /\ kUndoStack = <<>>
    /\ kRedoStack = <<>>
    /\ loads = <<>>
    /\ pActiveTool = "brush"
    /\ restored = NothingRestored
    /\ pCanvasState = [t \in TabIdSet |-> Absent]
    /\ pTabs = Stored(<<FirstTab>>)
    /\ pActive = Stored(1)
    /\ pImagesState = [t \in TabIdSet |-> Absent]
    /\ pImageState = [t \in TabIdSet |-> Absent]
    /\ images = <<>>
    /\ currentImage = 0
    /\ imageDrawings = [i \in ImageIdSet |-> NoDrawing]
    /\ imageCanvases = [i \in ImageIdSet |-> NewCanvas]
    /\ imIsDragging = FALSE
    /\ imGesture = NoGesture
    /\ imStyle = [i \in ImageIdSet |-> NewImageStyle(0)]
    /\ uploading = 0
    /\ imgPending = {}
    /\ drawingLoads = <<>>
    /\ nextImageId = 1
    /\ strokeTarget = 0

InitObserve(n, d) ==
    /\ budget = n
    /\ deep = d
    /\ lastOp = "init"
    /\ prevOp = "init"
    /\ pre = [layers |-> <<>>, undoStack |-> <<>>, redoStack |-> <<>>, activeTabId |-> 1]
    /\ left = [t \in TabIdSet |-> NotLeft]
    /\ setThrows = FALSE
    /\ job = NoJob
    /\ heap = NewHeap
    /\ render = NoRender
    /\ messages = NoMessages

Init == InitLayerModel /\ InitRaster /\ InitObserve(MaxSteps, FALSE)

\* the layer-model variant, driven by its user interface
Next ==
    \/ \E d \in Uploads : StartUpload(d)
    \/ \E d \in Uploads : ReaderLoad(d)
    \/ \E d \in Uploads : DecodeComplete(d)
    \/ \E t \in {"brush", "pointer"} : ClickTool(t)
    \/ \E p \in Points : MouseDown(p)
    \/ \E p \in Points : MouseMove(p)
    \/ \E d \in Strokes : MouseUp(d)
    \/ ClickClear
    \/ KeyUndo
    \/ KeyRedo
    \/ ClickAddTab
    \/ \E t \in TabIdSet : ClickTab(t)
    \/ \E t \in TabIdSet : ClickClose(t)

Spec == Init /\ [][Next]_vars

(***************************************************************************)
(* LayerManager driven through its API: the snapshot operations, undo,     *)
(* redo, and the loads a sheet switch makes.                               *)
(***************************************************************************)
InitHistory == InitLayerModel /\ InitRaster /\ InitObserve(HistorySteps, TRUE)

NextHistory ==
    \/ \E d \in Strokes : Len(layers) < MaxLayers /\ CallAddDrawingLayer(d)
    \/ \E d \in Uploads : Len(layers) < MaxLayers /\ CallAddImageLayer(d)
    \/ \E i \in 1..MaxLayers : CallRemoveLayer(i)
    \/ ClickClear
    \/ KeyUndo
    \/ KeyRedo
    \/ ClickAddTab
    \/ \E t \in TabIdSet : ClickTab(t)

SpecHistory == InitHistory /\ [][NextHistory]_vars

(***************************************************************************)
(* LayerManager with a long history: one stroke is added and cleared over  *)
(* and over; undo, redo and a load come in once the undo stack is close to *)
(* its limit.                                                              *)
(***************************************************************************)
InitLimit == InitLayerModel /\ InitRaster /\ InitObserve(LimitSteps, FALSE)

NextLimit ==
    \/ layers = <<>> /\ CallAddDrawingLayer("s1")
    \/ layers # <<>> /\ ClickClear
    \/ Len(undoStack) >= NearLimit /\ KeyUndo
    \/ KeyRedo
    \/ Len(undoStack) >= NearLimit /\ ClickTab(1)

SpecLimit == InitLimit /\ [][NextLimit]_vars

(***************************************************************************)
(* Undo / redo history of the layer model                                  *)
(***************************************************************************)
\* the snapshot operations of LayerManager
MutationOps == {"addDrawingLayer", "addImageLayer", "removeLayer", "clearLayers"}

\* C1: after a load and any sequence of addLayer, removeLayer and
\* clearLayers calls, an undo() right after one of those calls sets the
\* layer sequence to the value it had immediately before that call.
UndoRestoresBeforeLastCall ==
    [][(lastOp \in MutationOps /\ KeyUndo) => layers' = pre.layers]_vars

\* an undo() has followed a snapshot operation and has changed the layers
UndoAfterCall ==
    /\ lastOp = "undo"
    /\ prevOp \in MutationOps
    /\ layers # pre.layers
    /\ pre.undoStack # <<>>

\* C2: in every reachable state with a non-empty undo stack, undo() followed
\* by redo() leaves the layer sequence, the undo stack and the redo stack
\* equal to what they were.
UndoThenRedoIsIdentity ==
    undoStack # <<>> =>
        LET u == UndoResult(layers, undoStack, redoStack)
            r == RedoResult(u.layers, u.undoStack, u.redoStack)
        IN /\ r.layers = layers
           /\ r.undoStack = undoStack
           /\ r.redoStack = redoStack

\* C3: immediately after an addLayer, removeLayer or clearLayers call the
\* redo stack is empty, whatever undo() and redo() calls came before it.
RedoEmptyAfterCall ==
    lastOp \in MutationOps => redoStack = <<>>

\* a snapshot operation has run on a non-empty redo stack, which an undo()
\* had filled, and has emptied it
CallAfterUndo ==
    /\ lastOp \in MutationOps
    /\ pre.redoStack # <<>>
    /\ redoStack = <<>>

\* C4: the undo stack never holds more than 50 snapshots; a push on a full
\* stack removes the oldest snapshot and keeps the others in order.
UndoStackBounded ==
    /\ [](Len(undoStack) <= HistoryLimit)
    /\ [][(Len(undoStack) = HistoryLimit /\ lastOp' \in MutationOps
              /\ JsonCopy(layers) # Last(undoStack))
            => undoStack' = Append(Tail(undoStack), JsonCopy(layers))]_vars

\* a snapshot operation has pushed on a full undo stack
PushedOnFullStack ==
    /\ lastOp \in MutationOps
    /\ Len(pre.undoStack) = HistoryLimit
    /\ Len(undoStack) = HistoryLimit
    /\ undoStack # pre.undoStack

\* C5: saveStateToHistory pushes nothing when the layers equal the top of
\* the undo stack, and no two adjacent snapshots of the undo stack are equal.
NoRepeatedSnapshot ==
    /\ (undoStack # <<>> /\ layers = Last(undoStack))
          => SaveStateToHistory(layers, undoStack, redoStack).undoStack = undoStack
    /\ \A i \in 1..(Len(undoStack) - 1) : undoStack[i] # undoStack[i + 1]

\* a snapshot operation has found the layers equal to the top and pushed nothing
CallSkippedPush ==
    /\ lastOp \in MutationOps
    /\ pre.undoStack # <<>>
    /\ pre.layers = Last(pre.undoStack)
    /\ undoStack = pre.undoStack
    /\ layers # pre.layers

(***************************************************************************)
(* Sheets of the layer model: one image, the pointer positions of a resize *)
(* from its top-left handle and of a drag, one stroke, and the sheet       *)
(* operations.                                                             *)
(***************************************************************************)
\* number of UI events of one behaviour of SpecSheets
SheetSteps == 9

SheetPoints == { <<50, 50>>, <<30, 30>> }

InitSheets == InitLayerModel /\ InitRaster /\ InitObserve(SheetSteps, FALSE)

NextSheets ==
    \/ StartUpload("imgA")
    \/ ReaderLoad("imgA")
    \/ DecodeComplete("imgA")
    \/ \E t \in {"brush", "pointer"} : ClickTool(t)
    \/ \E p \in SheetPoints : MouseDown(p)
    \/ \E p \in SheetPoints : MouseMove(p)
    \/ MouseUp("s1")
    \/ KeyUndo
    \/ KeyRedo
    \/ ClickAddTab
    \/ \E t \in TabIdSet : ClickTab(t)
    \/ \E t \in TabIdSet : ClickClose(t)

SpecSheets == InitSheets /\ [][NextSheets]_vars

\* the handlers that activate a sheet
SwitchOps == {"addTab", "switchToTab"}

\* C6: when sheet A was left with every operation on it completed, coming
\* back to A makes the layers equal to A's layers as they were when it was
\* left, whatever was done on the other sheet in between.
SheetLayersRestored ==
    (/\ lastOp = "switchToTab"
     /\ pre.activeTabId # activeTabId
     /\ left[activeTabId].has
     /\ left[activeTabId].idle)
        => layers = left[activeTabId].layers

\* C7: removeTab with exactly one sheet in the registry changes neither the
\* registry, nor the active sheet id, nor any persisted key.
LastSheetKept ==
    [][(Len(tabList) = 1 /\ lastOp' \in {"removeTab", "removeTabRejected"})
         => UNCHANGED <<tabList, activeTabId, lsTabs, lsActive, lsLayers>>]_vars

\* removeTab has been called on the only sheet, which has stored layers
RemovalRejected ==
    /\ lastOp = "removeTabRejected"
    /\ Len(tabList) = 1
    /\ lsLayers[activeTabId] # Absent
    /\ tabList[1].id = activeTabId

\* C8: in every reachable state the active sheet id is the id of exactly one
\* sheet of the registry.
ActiveSheetInRegistry ==
    Cardinality({i \in 1..Len(tabList) : tabList[i].id = activeTabId}) = 1

RasterSteps == 8

InitRasterRun == InitLayerModel /\ InitRaster /\ InitObserve(RasterSteps, FALSE)

NextRaster ==
    \/ StartDrawing
    \/ Draw
    \/ StopDrawing
    \/ PopupKeyUndo
    \/ PopupKeyRedo
    \/ \E i \in 1..RasterSteps : ImageOnload(i)
    \/ PopupClickClear
    \/ \E t \in {"brush", "pointer"} : PopupClickTool(t)
    \/ PopupClickAddTab
    \/ \E t \in TabIdSet : PopupClickTab(t)
    \/ \E t \in TabIdSet : PopupClickClose(t)

SpecRaster == InitRasterRun /\ [][NextRaster]_vars

\* C9: an undo or redo made while sheet B is active never paints on the
\* surface a raster that was captured while another sheet was active (here:
\* a raster of that other sheet with strokes on it).
HistoryIsSheetScoped ==
    (restored.by \in {"undo", "redo"} /\ restored.data # {})
        => restored.origin = restored.at

\* C19: when the raster popped by a successful undo() or redo() has been
\* decoded and painted, the value persisted under canvasState_<active sheet>
\* is that raster.
RestoredRasterPersisted ==
    [][(/\ lastOp \in {"undo", "redo"}
        /\ loads # <<>>
        /\ Last(loads).by = lastOp
        /\ lastOp' = "onload"
        /\ restored' = Last(loads))
            => pCanvasState'[pActiveTabId] = RasterString(restored'.data)]_vars

(***************************************************************************)
(* The canvas-raster variant with its images                               *)
(***************************************************************************)
\* number of UI events of one behaviour of SpecImages
ImageSteps == 6

InitImages == InitLayerModel /\ InitRaster /\ InitObserve(ImageSteps, FALSE)

NextImages ==
    \/ StartDrawing
    \/ Draw
    \/ StopDrawing
    \/ ChooseImage
    \/ UploadReaderLoad
    \/ \E id \in ImageIdSet : ImgOnload(id)
    \/ \E i \in 1..Len(loads) : ImageOnload(i)
    \/ \E i \in 1..Len(drawingLoads) : DrawingOnload(i)
    \/ \E target \in ImageIdSet \cup {0} : ImageLayerMouseDown(target, "none", 100)
    \/ ImageMouseUp
    \/ \E id \in ImageIdSet : ClickDeleteImage(id)
    \/ PopupClickClear
    \/ \E t \in {"brush", "pointer"} : PopupClickTool(t)
    \/ PopupClickAddTab
    \/ \E t \in TabIdSet : PopupClickTab(t)
    \/ \E t \in TabIdSet : PopupClickClose(t)

SpecImages == InitImages /\ [][NextImages]_vars

\* C11: the target of a stroke is the selection at startDrawing.  A sample
\* of a stroke begun on a selected image is painted on that image's overlay
\* and not on the surface, and stopDrawing stores the overlay as that
\* image's drawing data and leaves canvasState_ alone; a sample of a stroke
\* begun with no image selected is painted on the surface and leaves every
\* overlay alone, and stopDrawing persists the surface and leaves every
\* image's drawing data alone.  (Stated for strokes whose image still is in
\* the image layer.)
StrokeTargetFixed ==
    [][/\ (/\ lastOp' = "draw" /\ drawing /\ pActiveTool = "brush"
           /\ strokeTarget \in ImagesIn(images) \cup {0})
            => IF strokeTarget # 0
               THEN /\ stroke \in imageCanvases'[strokeTarget].data
                    /\ canvas' = canvas
               ELSE /\ canvas' = canvas \cup {stroke}
                    /\ imageCanvases' = imageCanvases
       /\ (/\ lastOp' = "stopDrawing" /\ drawing
           /\ strokeTarget \in ImagesIn(images) \cup {0})
            => IF strokeTarget # 0
               THEN /\ imageDrawings'[strokeTarget] =
                           OverlayString(imageCanvases[strokeTarget])
                    /\ pCanvasState' = pCanvasState
               ELSE /\ pCanvasState'[pActiveTabId] = RasterString(canvas)
                    /\ imageDrawings' = imageDrawings
                    /\ pImagesState' = pImagesState]_vars

\* C17: removeTab(id) on a registry of more than one sheet leaves no
\* persisted state of sheet id: neither canvasState_<id> nor the
\* imagesState_<id> that saveImagesState wrote holds a value.
RemovedSheetLeavesNothing ==
    [][\A t \in TabIdSet :
          (lastOp' = "removeTab" /\ t \in TabIds(pTabList) /\ t \notin TabIds(pTabList'))
              => /\ pCanvasState'[t] = Absent
                 /\ pImagesState'[t] = Absent]_vars

(***************************************************************************)
(* Claims on the layer-model variant driven by its user interface          *)
(***************************************************************************)
\* C12: the pointer-up that ends a brush stroke appends a new Drawing layer
\* when no image layer is active; when an image layer is active it appends
\* no layer (the stroke is merged into that layer) and the active layer
\* stays selected.
StrokeCommitTarget ==
    [][(lastOp' = "addDrawingLayer" /\ activeTool = "brush" /\ isDrawing)
          => IF activeLayer # 0 /\ layers[activeLayer].type = "image"
             THEN /\ Len(layers') = Len(layers)
                  /\ activeLayer' = activeLayer
             ELSE /\ Len(layers') = Len(layers) + 1
                  /\ Last(layers').type = "drawing"
                  /\ Front(layers') = layers]_vars

\* C13: getLayerAt(x, y) returns, among the Image layers whose bounds
\* [x, x+width] x [y, y+height] hold the point, the one latest in the layer
\* sequence; none when no Image layer holds the point; never a Drawing layer.
TopmostImageHit ==
    \A p \in Points :
        LET holding == {j \in 1..Len(layers) :
                            layers[j].type = "image" /\ Contains(layers[j], p)}
            i == HitIndex(layers, p) IN
        IF holding = {} THEN i = 0
        ELSE /\ i \in holding
             /\ \A j \in holding : j <= i
             /\ layers[i].type = "image"

\* a pointer-down has hit two overlapping image layers and selected one
HitOnOverlappingImages ==
    /\ lastOp = "mouseDown"
    /\ isDragging
    /\ activeLayer = 2
    /\ Len(layers) = 2
    /\ \E p \in Points :
          /\ dragStart.x = Num(p[1])
          /\ dragStart.y = Num(p[2])
          /\ \A j \in 1..2 : layers[j].type = "image" /\ Contains(layers[j], p)

(***************************************************************************)
(* Resize gestures.  A behaviour of SpecResize starts where a resize from  *)
(* handle br has just ended on a sheet's only layer, a decoded image at    *)
(* its default position: the pointer tool is selected, the image is the    *)
(* active layer and has the width and height the gesture gave it.          *)
(***************************************************************************)
\* number of pointer events of one behaviour of SpecResize
ResizeSteps == 4

ResizePoints ==
    {<<50, 50>>, <<30, 30>>, <<150, 150>>, <<180, 150>>, <<250, 250>>, <<150, 250>>,
     <<100, 100>>, <<150, 50>>, <<250, 50>>, <<50, 250>>}

ResizedImage(data, w) ==
    [ImageLayer(1, data) EXCEPT
        !.width = Num(w),
        !.height = Num((w * IntrinsicHeight(data)) \div IntrinsicWidth(data))]

InitResize ==
    /\ \E data \in Uploads, w \in {100, 200} :
          /\ layers = <<ResizedImage(data, w)>>
          /\ avail = {data}
    /\ activeLayer = 1
    /\ undoStack = << <<>>, JsonCopy(layers) >>
    /\ redoStack = <<>>
    /\ nextLayerId = 2
    /\ activeTool = "pointer"
    /\ isDragging = FALSE
    /\ isResizing = FALSE
    /\ dragStart = NoDragStart
    /\ resizeHandle = "none"
    /\ isDrawing = FALSE
    /\ reading = {}
    /\ tabList = <<FirstTab>>
    /\ activeTabId = 1
    /\ tabDom = {1}
    /\ nextTabId = 2
    /\ lsLayers = [t \in TabIdSet |-> IF t = 1 THEN SaveToLocalStorage(layers) ELSE Absent]
    /\ lsTabs = SaveToLocalStorage(<<FirstTab>>)
    /\ lsActive = SaveToLocalStorage(1)
    /\ InitRaster
    /\ budget = ResizeSteps
    /\ deep = FALSE
    /\ lastOp = "gestureEnd"
    /\ prevOp = "init"
    /\ pre = [layers |-> layers, undoStack |-> <<<<>>>>, redoStack |-> <<>>,
              activeTabId |-> 1]
    /\ left = [t \in TabIdSet |-> NotLeft]
    /\ setThrows = FALSE
    /\ job = NoJob
    /\ heap = NewHeap
    /\ render = NoRender
    /\ messages = NoMessages

NextResize ==
    \/ \E p \in ResizePoints : MouseDown(p)
    \/ \E p \in ResizePoints : MouseMove(p)
    \/ \E d \in Strokes : MouseUp(d)

SpecResize == InitResize /\ [][NextResize]_vars

\* C14: a pointer-move of a resize from handle br sets the width to
\* startWidth + dx, not below the floor of 20, and the height to the width
\* divided by the aspect ratio, and leaves x and y alone; the pointer-up
\* that ends the gesture leaves the layer as the last move made it.  With
\* startWidth = 100, height 100, aspect 1:1 and dx = 30, dy = 0 this gives
\* 130 by 130.
ResizeFromBr ==
    [][/\ \A p \in ResizePoints :
            (/\ MouseMove(p)
             /\ activeTool = "pointer" /\ activeLayer # 0
             /\ isResizing /\ ~isDragging /\ resizeHandle = "br")
                => LET old == layers[activeLayer]
                       new == layers'[activeLayer]
                       dx == p[1] - dragStart.x.v
                       grown == dragStart.width.v + dx
                       w == IF grown > MinSize THEN grown ELSE MinSize IN
                   /\ new.width = Num(w)
                   /\ new.height = Num((w * IntrinsicHeight(old.data))
                                           \div IntrinsicWidth(old.data))
                   /\ new.x = old.x
                   /\ new.y = old.y
                   /\ (dragStart.width = Num(100) /\ old.data = "imgA" /\ dx = 30)
                        => (new.width = Num(130) /\ new.height = Num(130))
       /\ (lastOp' = "gestureEnd") => layers' = layers]_vars

\* the image of width 100, height 100 and aspect 1:1 has been resized from
\* br by dx = 30, dy = 0
BrResizedBy30 ==
    /\ lastOp = "mouseMove"
    /\ isResizing /\ ~isDragging /\ resizeHandle = "br"
    /\ dragStart.width = Num(100) /\ dragStart.height = Num(100)
    /\ dragStart.x = Num(150) /\ dragStart.y = Num(150)
    /\ layers[1].data = "imgA"
    /\ layers[1].width = Num(130) /\ layers[1].height = Num(130)
    /\ layers[1].x = Num(50) /\ layers[1].y = Num(50)

\* C15: a pointer-move of a resize from handle tl with dx = -20, dy = -20 on
\* an image of width 100, height 100 and aspect 1:1 gives width 120,
\* height 120 and x and y each 20 less than at resize start, both numbers.
ResizeFromTl ==
    [][\A p \in ResizePoints :
          (/\ MouseMove(p)
           /\ activeTool = "pointer" /\ activeLayer # 0
           /\ isResizing /\ ~isDragging /\ resizeHandle = "tl"
           /\ dragStart.width = Num(100) /\ dragStart.height = Num(100)
           /\ layers[activeLayer].x.k = "num" /\ layers[activeLayer].y.k = "num"
           /\ p[1] - dragStart.x.v = -20 /\ p[2] - dragStart.y.v = -20)
              => LET old == layers[activeLayer]
                     new == layers'[activeLayer] IN
                 /\ new.width = Num(120)
                 /\ new.height = Num(120)
                 /\ new.x = Num(old.x.v - 20)
                 /\ new.y = Num(old.y.v - 20)]_vars

(***************************************************************************)
(* The sheet registry of popup.js under addTab, removeTab and renaming     *)
(***************************************************************************)
\* number of UI events of one behaviour of SpecTitles
TitleSteps == 5

\* what is typed into the title input: "Sheet 1", "Sheet 3",
\* "Sheet 9007199254740992", "7", "Notes 4", "Notes" and nothing
TypedTitles ==
    {SheetTitle(Num(1)), SheetTitle(Num(3)), SheetTitle(TwoTo53), [text |-> "", n |-> Num(7)],
     [text |-> "Notes ", n |-> Num(4)], [text |-> "Notes", n |-> NaN],
     [text |-> "", n |-> NaN]}

NextTitles ==
    \/ PopupClickAddTab
    \/ \E t \in TabIdSet : PopupClickTab(t)
    \/ \E t \in TabIdSet : PopupClickClose(t)
    \/ \E t \in TabIdSet, typed \in TypedTitles : PopupRenameTab(t, typed)

InitTitles == InitLayerModel /\ InitRaster /\ InitObserve(TitleSteps, FALSE)

SpecTitles == InitTitles /\ [][NextTitles]_vars

\* C16: whatever addTab, removeTab and renaming made of the registry,
\* generateUniqueTabTitle() returns "Sheet N" where N is 1 + the largest
\* number among the existing titles (so N is larger than each of them), and
\* the returned title is the title of no existing sheet.
GeneratedTitleIsNew ==
    LET generated == GenerateUniqueTabTitle(pTabList)
        numbers == {TitleNumber(pTabList[i].title) : i \in DOMAIN pTabList} IN
    /\ generated.text = "Sheet "
    /\ \A i \in DOMAIN pTabList : pTabList[i].title # generated
    /\ \A n \in numbers : n # generated.n
    /\ \/ generated.n = Num(1) /\ numbers = {Num(0)}
       \/ \E n \in numbers : n.k = "num" /\ generated.n = Num(n.v + 1)

\* C18: in every reachable state the active layer is none, or it is a layer
\* of the layer sequence, of kind image, and the last one of the sequence.
ActiveLayerOnTop ==
    \/ activeLayer = 0
    \/ /\ activeLayer \in 1..Len(layers)
       /\ layers[activeLayer].type = "image"
       /\ activeLayer = Len(layers)

\* getLayerAt has selected an image layer that lay under another layer
SelectedLayerRaised ==
    /\ lastOp = "mouseDown"
    /\ Len(layers) = 2
    /\ activeLayer = 2
    /\ pre.layers = <<layers[2], layers[1]>>
    /\ layers[1] # layers[2]

(***************************************************************************)
(* The layer-model variant with a store that can be full: setItem throws   *)
(* from the moment the quota is reached until room is made again           *)
(***************************************************************************)
\* number of events of one behaviour of SpecQuota
QuotaSteps == 6

QuotaPoints == { <<50, 50>>, <<250, 50>>, <<100, 100>> }

\* the environment: the quota of localStorage is reached, or room is made
QuotaChanges ==
    /\ setThrows' = ~setThrows
    /\ UNCHANGED <<layerVars, rasterVars, messages, obsVars>>

NextQuota ==
    \/ StartUpload("imgA")
    \/ ReaderLoad("imgA")
    \/ DecodeComplete("imgA")
    \/ \E t \in {"brush", "pointer"} : ClickTool(t)
    \/ \E p \in QuotaPoints : MouseDown(p)
    \/ \E p \in QuotaPoints : MouseMove(p)
    \/ MouseUp("s1")
    \/ ClickClear
    \/ KeyUndo
    \/ KeyRedo
    \/ QuotaChanges

InitQuota == InitLayerModel /\ InitRaster /\ InitObserve(QuotaSteps, FALSE)

SpecQuota == InitQuota /\ [][NextQuota]_vars

\* C20: when setItem throws during addLayer (from addImageLayer or
\* addDrawingLayer), removeLayer, clearLayers, undo, redo or the commit of a
\* gesture, the handler runs to its end: the layers, the active layer and
\* both stacks end as they do with a working store, and only the stored
\* entry stays as it was.
FailedWriteCompletes ==
    [][(setThrows /\ budget' < budget) =>
        LET h == SaveStateToHistory(layers, undoStack, redoStack)
            u == UndoResult(layers, undoStack, redoStack)
            r == RedoResult(layers, undoStack, redoStack)
            op == lastOp'
            after == <<layers', undoStack', redoStack'>>
        IN /\ lsLayers' = lsLayers
           /\ op = "addImageLayer" =>
                /\ after = <<Append(layers, ImageLayer(nextLayerId, "imgA")),
                             h.undoStack, h.redoStack>>
                /\ activeLayer' = Len(layers')
           /\ op = "addDrawingLayer" =>
                /\ after = <<Append(layers, DrawingLayer(nextLayerId, "s1")),
                             h.undoStack, h.redoStack>>
                /\ activeLayer' = 0
           /\ op = "removeLayer" =>
                /\ after = <<WithoutLayer(layers, layers[activeLayer].id),
                             h.undoStack, h.redoStack>>
                /\ activeLayer' = 0
           /\ op = "clearLayers" =>
                /\ after = << <<>>, h.undoStack, h.redoStack>>
                /\ activeLayer' = 0
           /\ (op = "undo" /\ undoStack # <<>>) =>
                /\ after = <<u.layers, u.undoStack, u.redoStack>>
                /\ activeLayer' = 0
           /\ (op = "redo" /\ redoStack # <<>>) =>
                /\ after = <<r.layers, r.undoStack, r.redoStack>>
                /\ activeLayer' = 0
           /\ op = "gestureEnd" =>
                /\ after = <<layers, h.undoStack, h.redoStack>>
                /\ activeLayer' = activeLayer
                /\ ~isDragging' /\ ~isResizing'
    ]_vars

\* addImageLayer has run while setItem threw: the image is in the layers and
\* selected, and the stored entry does not hold it
WriteFailedDuringAddLayer ==
    /\ lastOp = "addImageLayer"
    /\ setThrows
    /\ activeLayer = Len(layers)
    /\ Len(layers) = Len(pre.layers) + 1
    /\ lsLayers[activeTabId] # SaveToLocalStorage(JsonCopy(layers))

(***************************************************************************)
(* The layer-model variant over a store whose layersState_ entries can be  *)
(* overwritten from outside the page with text that does not decode        *)
(***************************************************************************)
\* number of events of one behaviour of SpecDecode
DecodeSteps == 6

Malformed == {Unparsable, BrokenText}

\* the environment: the layersState_ entry of sheet t is overwritten
StoreOverwritten(t, entry) ==
    /\ lsLayers' = [lsLayers EXCEPT ![t] = entry]
    /\ Observe("storeOverwritten")
    /\ UNCHANGED <<lmVars, imVars, avail, reading, tabVars, lsTabs, lsActive, rasterVars,
                   left>>

InitDecode == InitLayerModel /\ InitRaster /\ InitObserve(DecodeSteps, FALSE)

NextDecode ==
    \/ StartUpload("imgA")
    \/ ReaderLoad("imgA")
    \/ KeyUndo
    \/ ClickAddTab
    \/ \E t \in TabIdSet : ClickTab(t)
    \/ \E t \in TabIdSet : ClickClose(t)
    \/ \E t \in TabIdSet, e \in Malformed : StoreOverwritten(t, e)

SpecDecode == InitDecode /\ [][NextDecode]_vars

\* C21: switchToTab(t) on a sheet whose layersState_ entry does not decode
\* completes: the layers are empty, no layer is active, the undo stack holds
\* the one empty snapshot, the redo stack is empty, t is the active sheet and
\* t is the stored active id.
MalformedSheetActivates ==
    [][\A t \in TabIdSet :
        (lastOp' = "switchToTab" /\ budget' < budget /\ activeTabId' = t
           /\ lsLayers[t] \in Malformed)
        => /\ layers' = <<>>
           /\ activeLayer' = 0
           /\ undoStack' = << <<>> >>
           /\ redoStack' = <<>>
           /\ lsActive' = SaveToLocalStorage(t)
           /\ lsTabs' = SaveToLocalStorage(tabList)]_vars

\* a switch from a sheet that holds an image and an undone state to a sheet
\* whose entry is a string that is no JSON
SwitchedToBrokenSheet ==
    /\ lastOp = "switchToTab"
    /\ pre.layers # <<>>
    /\ pre.activeTabId # activeTabId
    /\ lsLayers[activeTabId] = BrokenText
    /\ layers = <<>>
    /\ lsActive = SaveToLocalStorage(activeTabId)

(***************************************************************************)
(* Export of a stored sheet: the page opens on a sheet of up to            *)
(* MaxExportLayers layers, and Download and Print are clicked; the Images  *)
(* of a call load in any order. One call is in progress at a time and no   *)
(* other handler runs.                                                     *)
(***************************************************************************)
\* layers of the sheet exported in SpecExport
MaxExportLayers == 3
\* number of events of one behaviour of SpecExport
ExportSteps == 5

\* the layers loadState() reads for a sheet whose layers have these kinds
StoredSheet(kinds) ==
    [i \in 1..Len(kinds) |->
        IF kinds[i] = "image" THEN ImageLayer(i, "imgA") ELSE DrawingLayer(i, "s1")]

ExportSheets ==
    {StoredSheet(kinds) :
        kinds \in UNION {[1..n -> {"image", "drawing"}] : n \in 0..MaxExportLayers}}

InitExport ==
    /\ layers \in ExportSheets
    /\ activeLayer = 0
    /\ undoStack = <<JsonCopy(layers)>>
    /\ redoStack = <<>>
    /\ nextLayerId = Len(layers) + 1
    /\ activeTool = "brush"
    /\ isDragging = FALSE
    /\ isResizing = FALSE
    /\ dragStart = NoDragStart
    /\ resizeHandle = "none"
    /\ isDrawing = FALSE
    /\ avail = {}
    /\ reading = {}
    /\ tabList = <<FirstTab>>
    /\ activeTabId = 1
    /\ tabDom = {1}
    /\ nextTabId = 2
    /\ lsLayers = [t \in TabIdSet |-> IF t = 1 THEN SaveToLocalStorage(layers) ELSE Absent]
    /\ lsTabs = SaveToLocalStorage(<<FirstTab>>)
    /\ lsActive = SaveToLocalStorage(1)
    /\ InitRaster
    /\ budget = ExportSteps
    /\ deep = FALSE
    /\ lastOp = "init"
    /\ prevOp = "init"
    /\ pre = [layers |-> <<>>, undoStack |-> <<>>, redoStack |-> <<>>, activeTabId |-> 1]
    /\ left = [t \in TabIdSet |-> NotLeft]
    /\ setThrows = FALSE
    /\ job = NoJob
    /\ heap = NewHeap
    /\ render = NoRender
    /\ messages = NoMessages

\* a click on #downloadBtn
ClickDownload ==
    /\ job.pending = {}
    /\ Observed("downloadCanvas", DownloadCanvas(layers))
    /\ UNCHANGED <<lmVars, imVars, avail, reading, tabVars, lsVars, rasterVars, left>>

\* a click on #printBtn
ClickPrint ==
    /\ job.pending = {}
    /\ Observed("printCanvas", PrintCanvas(layers))
    /\ UNCHANGED <<lmVars, imVars, avail, reading, tabVars, lsVars, rasterVars, left>>

\* the Image of layer i of the call in progress has loaded
ExportImageLoaded(i) ==
    /\ i \in job.pending
    /\ Observed("exportOnload", ExportOnload(job, i))
    /\ UNCHANGED <<lmVars, imVars, avail, reading, tabVars, lsVars, rasterVars, left>>

NextExport ==
    \/ ClickDownload
    \/ ClickPrint
    \/ \E i \in 1..MaxExportLayers : ExportImageLoaded(i)

SpecExport == InitExport /\ [][NextExport]_vars

\* C22: when printCanvas() has produced the print view it has done so once,
\* and every layer of the sheet, drawing or image, has been painted on the
\* offscreen canvas before.
PrintAfterAllLayers ==
    (job.kind = "print" /\ job.fired > 0)
        => /\ job.fired = 1
           /\ {job.painted[k] : k \in DOMAIN job.painted} = 1..Len(job.layers)

\* C23: when downloadCanvas() has triggered the download it has done so
\* once, every layer has been painted, and the layers were painted in the
\* order of the layer sequence.
DownloadInLayerOrder ==
    (job.kind = "download" /\ job.fired > 0)
        => /\ job.fired = 1
           /\ job.painted = [k \in 1..Len(job.layers) |-> k]

(***************************************************************************)
(* The service worker: messages arrive, and the fetch and the              *)
(* response.json() of each settle in any order, with any outcome           *)
(***************************************************************************)
\* chrome.runtime.sendMessage(request) reaches the listener
MessageReceived(m, action) ==
    /\ messages[m].phase = "unsent"
    /\ messages' = [messages EXCEPT ![m] = OnMessage(@, action)]
    /\ UNCHANGED <<layerVars, setThrows, rasterVars, obsVars>>

\* the network fails
FetchFails(m) ==
    /\ messages[m].phase = "fetch"
    /\ messages' = [messages EXCEPT ![m] = FetchRejected(@)]
    /\ UNCHANGED <<layerVars, setThrows, rasterVars, obsVars>>

\* the server answers
FetchAnswered(m, status, body) ==
    /\ messages[m].phase = "fetch"
    /\ messages' = [messages EXCEPT ![m] = FetchResolved(@, status, body)]
    /\ UNCHANGED <<layerVars, setThrows, rasterVars, obsVars>>

\* the body has been read
BodyRead(m) ==
    /\ messages[m].phase = "json"
    /\ messages' = [messages EXCEPT ![m] = JsonSettled(@)]
    /\ UNCHANGED <<layerVars, setThrows, rasterVars, obsVars>>

InitBackground == InitLayerModel /\ InitRaster /\ InitObserve(0, FALSE)

NextBackground ==
    \/ \E m \in MessageIds, a \in {"callAiApi", "checkStatus", "other"} : MessageReceived(m, a)
    \/ \E m \in MessageIds : FetchFails(m)
    \/ \E m \in MessageIds, st \in HttpStatuses, b \in {"json", "html"} : FetchAnswered(m, st, b)
    \/ \E m \in MessageIds : BodyRead(m)

SpecBackground == InitBackground /\ [][NextBackground]_vars

\* C24: one HTTP request is issued per callAiApi message, the message is
\* answered at most once, and when its chain has settled it has been
\* answered once; when the HTTP response was not 2xx the answer is
\* a failure that carries the HTTP status.
NonOkIsFailure ==
    \A m \in MessageIds :
        messages[m].action = "callAiApi"
        => /\ messages[m].fetches = 1
           /\ Len(messages[m].responses) <= 1
           /\ messages[m].phase = "done"
              => /\ Len(messages[m].responses) = 1
                 /\ (messages[m].status # 0 /\ ~Ok(messages[m].status))
                    => /\ ~messages[m].responses[1].success
                       /\ messages[m].responses[1].status = messages[m].status

\* C25: a pointer-up or pointer-leave (both run handleMouseUp) that finds the
\* controller dragging, resizing or drawing leaves it idle, has taken the
\* history snapshot and has written the layers under the active sheet's key.
GestureEndCommits ==
    [][(~Idle /\ \E d \in Strokes : MouseUp(d))
        => LET h == SaveStateToHistory(layers, undoStack, redoStack) IN
           /\ Idle'
           /\ undoStack' = h.undoStack
           /\ redoStack' = h.redoStack
           /\ lsLayers'[activeTabId] = SaveToLocalStorage(JsonCopy(layers'))]_vars

\* C26: a pointer-down with the pointer tool tries the close button of the
\* active layer, then its handles, then the bodies of the layers. On the
\* close button the active layer is removed and no resize or drag starts;
\* on a handle and off the close button a resize of that handle starts and
\* LayerManager and the store are left alone; with no active layer no layer
\* is removed and no resize starts.
PointerDownPriority ==
    [][\A p \in ResizePoints :
        (activeTool = "pointer" /\ budget' < budget
           /\ lastOp' \in {"mouseDown", "removeLayer"} /\ HandleMouseDown(p))
        => LET onClose == /\ activeLayer # 0
                          /\ Within(p, GetCloseButton(layers[activeLayer]), CloseRadius)
               onHandle == /\ activeLayer # 0
                           /\ HandleAt(layers[activeLayer], p) # "none"
           IN /\ onClose =>
                   /\ layers' = WithoutLayer(layers, layers[activeLayer].id)
                   /\ activeLayer' = 0
                   /\ UNCHANGED <<isDragging, isResizing, dragStart, resizeHandle>>
              /\ (onHandle /\ ~onClose) =>
                   /\ isResizing'
                   /\ resizeHandle' = HandleAt(layers[activeLayer], p)
                   /\ UNCHANGED <<lmVars, lsLayers, isDragging>>
              /\ activeLayer = 0 =>
                   /\ Len(layers') = Len(layers)
                   /\ isResizing' = isResizing]_vars

\* a pointer-down on the close button, which the tr handle lies under, has
\* removed the active layer and started no resize
ClosedOnTrHandle ==
    /\ lastOp = "removeLayer"
    /\ Len(pre.layers) = 1
    /\ layers = <<>>
    /\ HandleAt(pre.layers[1], <<250, 50>>) = "tr"
    /\ ~isResizing /\ ~isDragging

(***************************************************************************)
(* popup.js: images are uploaded, dragged and resized with the pointer     *)
(***************************************************************************)
\* number of events of one behaviour of SpecImageResize
ImageResizeSteps == 6

\* clientX of the pointer events
PopupXs == {100, 130, 400}

PopupHandles == {"tl", "tr", "bl", "br"}

InitImageResize == InitLayerModel /\ InitRaster /\ InitObserve(ImageResizeSteps, FALSE)

NextImageResize ==
    \/ ChooseImage
    \/ UploadReaderLoad
    \/ PopupClickTool("pointer")
    \/ \E target \in ImageIdSet \cup {0}, h \in PopupHandles \cup {"none"}, x \in PopupXs :
          ImageLayerMouseDown(target, h, x)
    \/ \E x \in PopupXs : ImageMouseMove(x)
    \/ ImageMouseUp

SpecImageResize == InitImageResize /\ [][NextImageResize]_vars

\* C29: a pointer-move of a resize sets the width of the image to its width
\* at the pointer-down of the resize plus (br, tr) or minus (bl, tl) the
\* distance of the pointer from that pointer-down, not below the floor.
ResizeMeasuredFromDown ==
    [][\A x \in PopupXs :
        (ImageMouseMove(x) /\ pActiveTool = "pointer" /\ currentImage # 0
           /\ imGesture.isResizing /\ ~imGesture.isDragging)
        => LET dx == x - imGesture.downX IN
           imStyle'[currentImage].width =
              AtLeastMinWidth(IF imGesture.activeHandle \in {"br", "tr"}
                              THEN imGesture.initialWidth + dx
                              ELSE imGesture.initialWidth - dx)]_vars

(***************************************************************************)
(* Both variants, each driven by its user interface                        *)
(***************************************************************************)
\* number of events of one behaviour of SpecWidth
WidthSteps == 6

InitWidth == InitLayerModel /\ InitRaster /\ InitObserve(WidthSteps, FALSE)

NextWidth == Next \/ NextImageResize

SpecWidth == InitWidth /\ [][NextWidth]_vars

\* the widths of the image layers of a layer sequence
ImageWidths(ls) == {ls[i].width : i \in {j \in DOMAIN ls : ls[j].type = "image"}}

\* C27: in every reachable state the width of every image layer, in the
\* layers and in every snapshot of the two stacks, is a number of at least
\* 20, and the width of every image of popup.js is at least 50.
WidthFloor ==
    /\ \A w \in ImageWidths(layers) : w.k = "num" /\ w.v >= MinSize
    /\ \A i \in DOMAIN undoStack : \A w \in ImageWidths(undoStack[i]) :
          w.k = "num" /\ w.v >= MinSize
    /\ \A i \in DOMAIN redoStack : \A w \in ImageWidths(redoStack[i]) :
          w.k = "num" /\ w.v >= MinSize
    /\ \A id \in ImageIdSet : imStyle[id].width >= PopupMinWidth

\* a resize has brought an image layer of the layer-model variant down to
\* the floor
LayerAtFloor ==
    /\ lastOp = "mouseMove"
    /\ isResizing
    /\ activeLayer # 0
    /\ layers[activeLayer].width = Num(MinSize)
    /\ pre.layers[activeLayer].width = Num(DefaultWidth)

\* C28: a pointer-move of a resize from handle bl leaves x a number, and
\* moves x by the width the layer lost, so that x + width stays where it was.
ResizeFromBl ==
    [][\A p \in ResizePoints :
        (MouseMove(p) /\ activeTool = "pointer" /\ activeLayer # 0
           /\ isResizing /\ ~isDragging /\ resizeHandle = "bl")
        => /\ layers'[activeLayer].x.k = "num"
           /\ Plus(layers'[activeLayer].x, layers'[activeLayer].width)
                = Plus(layers[activeLayer].x, layers[activeLayer].width)]_vars

\* C30: whenever a handler reads the intrinsic size of the active layer's
\* image (handleMouseDown with the pointer tool places the handles of the
\* active layer with getImageHeight; the resize branch of handleMouseMove
\* reads img.width / img.height), the decode of that image has completed.
SizeReadAfterDecode ==
    [][(/\ budget' < budget
        /\ activeTool = "pointer"
        /\ activeLayer # 0
        /\ \/ lastOp' \in {"mouseDown", "removeLayer"}
           \/ lastOp' = "mouseMove" /\ isResizing /\ ~isDragging)
        => layers[activeLayer].data \in avail]_vars


(***************************************************************************)
(* The overlay of an image while strokes are drawn on it                   *)
(***************************************************************************)
\* number of UI events of one behaviour of SpecOverlay
OverlaySteps == 8

InitOverlay == InitLayerModel /\ InitRaster /\ InitObserve(OverlaySteps, FALSE)

NextOverlay ==
    \/ ChooseImage
    \/ UploadReaderLoad
    \/ \E id \in ImageIdSet : ImgOnload(id)
    \/ StartDrawing
    \/ Draw
    \/ StopDrawing
    \/ \E i \in 1..Len(drawingLoads) : DrawingOnload(i)

SpecOverlay == InitOverlay /\ [][NextOverlay]_vars

\* C31: when a draw sample finds the overlay of the selected image of
\* another width than the image, the overlay is initialized again and its
\* drawing is loaded again; once that load completes the overlay is as wide
\* as the image is, and holds the drawing it held before.
OverlayFitsAfterReload ==
    [][\A i \in 1..Len(drawingLoads) :
          (/\ budget' < budget
           /\ lastOp' = "drawingOnload"
           /\ drawingLoads[i].by = "draw"
           /\ drawingLoads' = SubSeq(drawingLoads, 1, i - 1)
                                  \o SubSeq(drawingLoads, i + 1, Len(drawingLoads)))
          => LET id == drawingLoads[i].image IN
             /\ imageCanvases'[id].width = imStyle[id].width
             /\ imageCanvases'[id].data = imageDrawings[id].v]_vars


\* C32: a completed drag that moved the active image layer can be undone in
\* one step: when the gesture has ended, undo() would install layers in
\* which that layer is where it was at the pointer-down.
DragUndoneByOneUndo ==
    [][(/\ budget' < budget
        /\ lastOp' = "gestureEnd"
        /\ isDragging
        /\ ~isResizing
        /\ activeTool = "pointer"
        /\ activeLayer # 0
        /\ dragStart.layerX.k = "num"
        /\ <<layers[activeLayer].x, layers[activeLayer].y>>
               # <<dragStart.layerX, dragStart.layerY>>)
       => /\ undoStack' # <<>>
          /\ LET r == UndoResult(layers', undoStack', redoStack') IN
             \E i \in 1..Len(r.layers) :
                /\ r.layers[i].id = layers[activeLayer].id
                /\ r.layers[i].x = dragStart.layerX
                /\ r.layers[i].y = dragStart.layerY]_vars


\* C33: a pointer-down with the pointer tool that goes to the hit test of
\* the layer bodies and hits the last layer of the sequence, or no layer,
\* changes the selection only: the layers, the undo stack and the redo stack
\* stay as they are.
SelectionKeepsHistory ==
    [][\A p \in Points :
          (/\ budget' < budget
           /\ lastOp' = "mouseDown"
           /\ activeTool = "pointer"
           /\ MouseDownBody(p)
           /\ HitIndex(layers, p) \in {0, Len(layers)})
          => /\ layers' = layers
             /\ undoStack' = undoStack
             /\ redoStack' = redoStack]_vars


\* C34: whenever no drag, resize or stroke is in progress, what is stored
\* under layersState_<activeTabId> decodes to the layers held in memory (no
\* entry decodes to no layers).
StoredLayersMatch ==
    Idle => LoadedLayers(lsLayers[activeTabId]) = layers


(***************************************************************************)
(* LayerManager by reference, driven by the pointer tool and the keyboard  *)
(***************************************************************************)
\* number of UI events of one behaviour of SpecHeap
HeapSteps == 6

\* a handler of op has run and has left LayerManager's objects as h; a
\* handler creates at most HeapMaxLayers + 2 objects
HeapEvent(op, h) ==
    /\ heap.next + HeapMaxLayers + 1 <= MaxRefs
    /\ Recorded(op)
    /\ job' = job
    /\ heap' = h
    /\ render' = render
    /\ UNCHANGED <<lmVars, imVars, avail, reading, tabVars, lsVars, rasterVars, left>>

LiveLayers == heap.objs[heap.layers].elems

\* reader.onload of an upload
HeapReaderLoad ==
    /\ Len(LiveLayers) < HeapMaxLayers
    /\ HeapEvent("addImageLayer", HeapAddImageLayer(heap))

\* the end of a stroke
HeapStrokeEnd ==
    /\ Len(LiveLayers) < HeapMaxLayers
    /\ ~heap.isDragging /\ ~heap.isResizing
    /\ HeapEvent("addDrawingLayer", HeapAddDrawingLayer(heap))

\* mousedown with the pointer tool.  Which image is the topmost one under
\* the pointer is an input: heights are not held here.
HeapMouseDown(part, i) ==
    /\ i \in 0..Len(LiveLayers)
    /\ i # 0 => heap.objs[LiveLayers[i]].type = "image"
    /\ part # "none" => heap.activeLayer # 0 /\ i = 0
    /\ HeapEvent("mouseDown", HeapHandleMouseDown(heap, part, i))

\* mousemove with the pointer tool
HeapMouseMove(dx) == HeapEvent("mouseMove", HeapHandleMouseMove(heap, dx))

\* mouseup with the pointer tool
HeapMouseUp == HeapEvent("mouseUp", HeapHandleMouseUp(heap))

\* Ctrl+Z
HeapKeyUndo == HeapEvent("undo", HeapUndo(heap))

\* Ctrl+Y
HeapKeyRedo == HeapEvent("redo", HeapRedo(heap))

InitHeap == InitLayerModel /\ InitRaster /\ InitObserve(HeapSteps, FALSE)

NextHeap ==
    \/ HeapReaderLoad
    \/ HeapStrokeEnd
    \/ \E part \in {"close", "handle", "none"}, i \in 0..HeapMaxLayers : HeapMouseDown(part, i)
    \/ \E dx \in {-30, 20} : HeapMouseMove(dx)
    \/ HeapMouseUp
    \/ HeapKeyUndo
    \/ HeapKeyRedo

SpecHeap == InitHeap /\ [][NextHeap]_vars

\* the snapshots on the two stacks of h
Snapshots(h) ==
    {h.undoStack[k] : k \in DOMAIN h.undoStack} \cup {h.redoStack[k] : k \in DOMAIN h.redoStack}

\* the objects array a of h holds
ElementsOf(h, a) == {h.objs[a].elems[k] : k \in DOMAIN h.objs[a].elems}

\* this.layers is no snapshot and holds no object a snapshot holds
NothingShared(h) ==
    /\ h.layers \notin Snapshots(h)
    /\ \A a \in Snapshots(h) : ElementsOf(h, h.layers) \cap ElementsOf(h, a) = {}

\* C35: snapshots are independent deep copies.  The live layer sequence
\* shares neither its array nor a layer object with a snapshot on the undo
\* stack or the redo stack, and no handler changes the content of a
\* snapshot that stays on a stack.
SnapshotsIndependent ==
    [][/\ NothingShared(heap)
       /\ NothingShared(heap')
       /\ \A a \in Snapshots(heap) \cap Snapshots(heap') :
             Stringified(heap', a) = Stringified(heap, a)]_vars

\* a drag has moved the live active layer in place while a snapshot on the
\* undo stack holds that layer where it was
DraggedBesideSnapshot ==
    /\ lastOp = "mouseMove"
    /\ heap.isDragging
    /\ heap.activeLayer # 0
    /\ \E a \in Snapshots(heap) : \E r \in ElementsOf(heap, a) :
          /\ heap.objs[r].id = heap.objs[heap.activeLayer].id
          /\ heap.objs[r].x = heap.layerX
          /\ heap.objs[heap.activeLayer].x # heap.layerX


\* C36: an upload whose file is still being read when a sheet is added was
\* begun on another sheet than the new one, which is active from then on;
\* when its read completes next, it adds nothing to the layers of the new
\* sheet, nor to its stored layers, nor to its history.
UploadStaysOnItsSheet ==
    [][(/\ lastOp = "addTab"
        /\ pre.activeTabId # activeTabId
        /\ reading # {}
        /\ budget' < budget
        /\ lastOp' = "addImageLayer")
       => /\ layers' = layers
          /\ lsLayers'[activeTabId] = lsLayers[activeTabId]
          /\ undoStack' = undoStack
          /\ redoStack' = redoStack]_vars


(***************************************************************************)
(* The main canvas of the layer-model variant                              *)
(***************************************************************************)
\* number of UI events of one behaviour of SpecRender
RenderSteps == 6

\* img.onload of an Image that renderAllLayers() created
MainImageLoaded(l) ==
    /\ l \in render.pending
    /\ Recorded("renderOnload")
    /\ job' = job
    /\ heap' = heap
    /\ render' = RenderOnload(render, l)
    /\ UNCHANGED <<lmVars, imVars, avail, reading, tabVars, lsVars, rasterVars, left>>

InitRender ==
    /\ InitLayerModel
    /\ InitRaster
    /\ budget = RenderSteps
    /\ deep = FALSE
    /\ lastOp = "init"
    /\ prevOp = "init"
    /\ pre = [layers |-> <<>>, undoStack |-> <<>>, redoStack |-> <<>>, activeTabId |-> 1]
    /\ left = [t \in TabIdSet |-> NotLeft]
    /\ setThrows = FALSE
    /\ job = NoJob
    /\ heap = NewHeap
    /\ render = [NoRender EXCEPT !.on = TRUE]
    /\ messages = NoMessages

NextRender ==
    \/ \E d \in Uploads : StartUpload(d)
    \/ \E d \in Uploads : ReaderLoad(d)
    \/ KeyUndo
    \/ KeyRedo
    \/ ClickAddTab
    \/ \E t \in TabIdSet : ClickTab(t)
    \/ \E l \in render.pending : MainImageLoaded(l)

SpecRender == InitRender /\ [][NextRender]_vars

\* C37: once every Image that renderAllLayers() created has loaded, and no
\* gesture is in progress, the main canvas holds the layers of the current
\* layer sequence, each painted once, in z-order.
SurfaceShowsLayers ==
    (render.on /\ render.pending = {} /\ Idle)
        => render.painted = [i \in 1..Len(layers) |-> layers[i].id]


\* C38: isDragging and isResizing are never both true.
OneGestureAtATime == ~(isDragging /\ isResizing)


\* the pointer positions inside the region of handle c of the layer
HandleRegion(layer, c) ==
    LET centre == GetImageHandles(layer)[c] IN
    IF centre.x.k = "num" /\ centre.y.k = "num"
    THEN {<<centre.x.v + dx, centre.y.v + dy>> :
             dx \in -HandleRadius..HandleRadius, dy \in -HandleRadius..HandleRadius}
    ELSE {}

\* C39: each of the four corners can start a resize.  With the pointer
\* tool, no gesture in progress and an active image layer that has been
\* decoded, every handle has a position in its region at which a
\* pointer-down starts a resize of that handle.
EveryCornerResizes ==
    (/\ activeTool = "pointer"
     /\ Idle
     /\ budget > 0
     /\ activeLayer # 0
     /\ layers[activeLayer].type = "image"
     /\ layers[activeLayer].data \in avail)
        => \A c \in {"tl", "tr", "bl", "br"} :
              \E p \in HandleRegion(layers[activeLayer], c) :
                 ENABLED (MouseDown(p) /\ isResizing' /\ resizeHandle' = c)

====
